---- MODULE Spec2Model ----
(***************************************************************************)
(* A model of the match synchronisation engine of nexus-insights:          *)
(* syncMatches, backfillTimelines, backfillAdvancedStats and               *)
(* computeAdvancedStatsForMatch (src/src/components/badgeEvaluator.js,     *)
(* lines 611-1361, the matchService part of that file), the match-id       *)
(* listing of src/src/services/riotApi.js and the matches table of         *)
(* src/src/services/database.js.                                           *)
(*                                                                         *)
(* Values that JavaScript may hold as null/undefined are modelled as       *)
(* sequences: Null is the empty sequence, Some(v) a one-element sequence.  *)
(* A millisecond timestamp is the record [s |-> seconds, ms |-> 0..999]    *)
(* so that the program's epoch constants keep their values.                *)
(***************************************************************************)
EXTENDS Integers, Sequences, FiniteSets, TLC

\* ------------------------------------------------------------------ bounds

\* Number of matches the external API knows for the subject.
MaxIds == 3
\* Number of top-level operations (sync or maintenance pass) in one behaviour.
MaxOps == 2

\* ------------------------------------------------------- program constants

RANKED_SEASON_START == 1767225600
SECONDS_PER_DAY == 86400
MAX_RETRIES == 2
BATCH_SIZE == 2
BACKOFF_UNIT_MS == 1000
PAGE_SIZE == 100
SPECIAL_QUEUES == <<2400, 1700, 1710>>
RANKED_SOLO_QUEUE == 420

\* ------------------------------------------------------------ null values

Null == <<>>
Some(v) == <<v>>
IsNull(x) == x = Null
Val(x) == x[1]

\* JSON.stringify / JSON.parse: the stored text is a different value from the
\* object it encodes; parsing a text gives the object back.
JSONstringify(obj) == [json |-> obj]
JSONparse(text) == text.json
IsString(x) == DOMAIN x = {"json"}

Min(a, b) == IF a < b THEN a ELSE b

\* Set of the elements of a sequence.
Range(seq) == {seq[k] : k \in 1..Len(seq)}

\* ---------------------------------------------------------- external world

Ids == 1..MaxIds
PUUID == "subject-puuid"
OTHER_PUUID == "other-puuid"

\* What the API serves for one match id: its queue, whether the listing
\* without a queue parameter returns it, and whether the detail's participant
\* list contains the subject.
Profiles ==
    { [queueId |-> RANKED_SOLO_QUEUE,  listedByDefault |-> TRUE,  hasSubject |-> TRUE],
      [queueId |-> RANKED_SOLO_QUEUE,  listedByDefault |-> TRUE,  hasSubject |-> FALSE],
      [queueId |-> SPECIAL_QUEUES[1],  listedByDefault |-> FALSE, hasSubject |-> TRUE],
      [queueId |-> SPECIAL_QUEUES[2],  listedByDefault |-> TRUE,  hasSubject |-> TRUE] }

\* Matches are created half a day after season start and then one a day, so
\* that the oldest one lies within a day of the season start and the others
\* do not; a higher id is a later match.
CreationSec(id) == RANKED_SEASON_START + id * SECONDS_PER_DAY - (SECONDS_PER_DAY \div 2)
GameCreation(id) == [s |-> CreationSec(id), ms |-> 500]

\* Math.floor(t / 1000) of a millisecond timestamp.
FloorSeconds(t) == t.s
TimeLess(a, b) == a.s < b.s \/ (a.s = b.s /\ a.ms < b.ms)

\* ------------------------------------------------------ external payloads

\* The subject plays champion "Ahri" on team 100 as participant 1; the ally is
\* participant 2 and the enemy, participant 3, plays the MIDDLE position. In a
\* match with an even id the subject has no position label, so that no lane
\* opponent exists; in a match whose id is a multiple of 3 the subject has no
\* rune selection; where the profile has no subject, participant 1 carries
\* another account id.
\* The field perk stands for perks.styles[0].selections[0].perk.
Participant(pid, puuid, champ, team, pos, gold, dmg, fb, kills, perk) ==
    [participantId |-> pid, puuid |-> puuid, championName |-> champ, teamId |-> team,
     teamPosition |-> pos, lane |-> "", goldEarned |-> gold,
     totalDamageDealtToChampions |-> dmg, firstBloodKill |-> fb,
     firstBloodAssist |-> FALSE, kills |-> kills,
     totalMinionsKilled |-> 150, neutralMinionsKilled |-> 10, perk |-> perk]

Team(teamId, dragons, barons, heralds) ==
    [teamId |-> teamId,
     objectives |-> [dragon |-> [kills |-> dragons], baron |-> [kills |-> barons],
                     riftHerald |-> [kills |-> heralds]]]

ApiDetail(id, profile) ==
    [info |->
        [queueId |-> profile.queueId,
         gameCreation |-> GameCreation(id),
         gameDuration |-> 1800,
         participants |->
            << Participant(1, IF profile.hasSubject THEN PUUID ELSE OTHER_PUUID, "Ahri", 100,
                           IF id % 2 = 0 THEN "" ELSE "MIDDLE", 10000, 15000, id % 2 = 1, 5,
                           IF id % 3 = 0 THEN Null ELSE Some(8112)),
               Participant(2, "ally-puuid", "Jinx", 100, "BOTTOM", 9000, 12000, FALSE, 3, Some(8008)),
               Participant(3, "enemy-puuid", "Zed", 200, "MIDDLE", 11000, 14000, FALSE, 4, Null) >>,
         teams |-> << Team(100, 2, 0, 1), Team(200, 1, 1, 0) >>]]

Pos(x, y) == Some([x |-> x, y |-> y])

PFrame(cs, jungle, gold, xp, pos) ==
    [minionsKilled |-> cs, jungleMinionsKilled |-> jungle, totalGold |-> gold, xp |-> xp,
     position |-> pos]

Event(type, ts, killer, victim, pos) ==
    [type |-> type, timestamp |-> ts, killerId |-> killer, victimId |-> victim, position |-> pos]

\* A two-frame timeline: the subject dies twice (once far from the ally, once
\* next to the ally) and the subject's team kills one elite monster.
ApiTimeline(id) ==
    [info |->
        [frames |->
            << [participantFrames |->
                    (1 :> PFrame(0, 0, 500, 0, Pos(500, 500)) @@
                     2 :> PFrame(0, 0, 500, 0, Pos(600, 600)) @@
                     3 :> PFrame(0, 0, 500, 0, Pos(14000, 14000))),
                events |-> << Event("CHAMPION_KILL", 30000, 3, 1, Pos(7000, 7000)) >>],
               [participantFrames |->
                    (1 :> PFrame(8 + id, 2, 900, 600, Pos(7000, 7000)) @@
                     2 :> PFrame(5, 0, 800, 500, Pos(7100, 7100)) @@
                     3 :> PFrame(6, 1, 950, 650, Pos(7500, 7500))),
                events |-> << Event("CHAMPION_KILL", 70000, 3, 1, Pos(7200, 7200)),
                              Event("ELITE_MONSTER_KILL", 100000, 2, 0, Pos(9800, 4400)) >>] >>]]

\* ------------------------------------------------- derived statistics

EmptyStats ==
    [csDiff15 |-> Null, goldDiff15 |-> Null, xpDiff15 |-> Null, firstBlood |-> Some(0),
     dmgGoldRatio |-> Null, isolatedDeaths |-> Null, objectiveRate |-> Null]

\* p.participantId || (participants.indexOf(p) + 1)
PIdOf(p, participants) ==
    IF p.participantId # 0 THEN p.participantId
    ELSE CHOOSE k \in 1..Len(participants) :
            /\ participants[k] = p
            /\ \A j \in 1..(k - 1) : participants[j] # p

\* Array.prototype.find: the first element satisfying the test, or Null.
Find(seq, Test(_)) ==
    LET hits == {k \in 1..Len(seq) : Test(seq[k])}
    IN  IF hits = {} THEN Null
        ELSE Some(seq[CHOOSE k \in hits : \A j \in hits : k <= j])

\* Flattening of the frames' event lists, in frame order.
RECURSIVE FlatEvents(_)
FlatEvents(frames) ==
    IF frames = <<>> THEN <<>> ELSE Head(frames).events \o FlatEvents(Tail(frames))

\* A quotient that is always rounded past the exact value.
RoundDivUp(num, den) == (num + den) \div den

\* Round-half-up quotient: the value of (num / den).toFixed(k) counted in
\* units of 10^-k once num is scaled by 10^k.
RoundDiv(num, den) == (2 * num + den) \div (2 * den)

Abs(n) == IF n < 0 THEN -n ELSE n

PROXIMITY_RADIUS == 1500
OBJECTIVE_WINDOW_MS == 15000
RESPAWN_WINDOW_MS == 30000
FRAME_MS == 60000
FRAME_15 == 15
FOUNTAIN_LOW == 1500
FOUNTAIN_HIGH == 13500

\* frames[Math.min(Math.floor(ts / 60000), frames.length - 1)], frames being
\* numbered from 0 in the code and from 1 here.
NearestFrame(frames, ts) == frames[Min(ts \div FRAME_MS, Len(frames) - 1) + 1]

\* Lines 1017-1043: the lane differences at the frame of minute 15.
LaneDiffs(me, myPId, participants, frames) ==
    LET none == [csDiff15 |-> Null, goldDiff15 |-> Null, xpDiff15 |-> Null]
        frame15 == IF Len(frames) > FRAME_15 THEN frames[FRAME_15 + 1] ELSE frames[Len(frames)]
        myPosition == IF me.teamPosition # "" THEN me.teamPosition ELSE me.lane
        PosOf(p) == IF p.teamPosition # "" THEN p.teamPosition ELSE p.lane
        opponent == Find(participants,
                         LAMBDA p : p.teamId # me.teamId /\ PosOf(p) = myPosition /\ myPosition # "")
    IN  IF Len(frames) = 0 \/ myPId \notin DOMAIN frame15.participantFrames \/ IsNull(opponent)
        THEN none
        ELSE LET oppPId == PIdOf(Val(opponent), participants)
             IN  IF oppPId \notin DOMAIN frame15.participantFrames THEN none
                 ELSE LET myFrame == frame15.participantFrames[myPId]
                          oppFrame == frame15.participantFrames[oppPId]
                      IN  [csDiff15 |-> Some((myFrame.minionsKilled + myFrame.jungleMinionsKilled)
                                             - (oppFrame.minionsKilled + oppFrame.jungleMinionsKilled)),
                           goldDiff15 |-> Some(myFrame.totalGold - oppFrame.totalGold),
                           xpDiff15 |-> Some(myFrame.xp - oppFrame.xp)]

\* Lines 1059-1095: is this death of the subject counted as isolated?
IsIsolatedDeath(death, frames, myTeamPIds, objectiveEvents) ==
    IF IsNull(death.position) THEN TRUE
    ELSE LET deathPos == Val(death.position)
             nearFrame == NearestFrame(frames, death.timestamp)
             hasNearbyTeammate ==
                \E k \in 1..Len(myTeamPIds) :
                    /\ myTeamPIds[k] \in DOMAIN nearFrame.participantFrames
                    /\ ~IsNull(nearFrame.participantFrames[myTeamPIds[k]].position)
                    /\ LET tp == Val(nearFrame.participantFrames[myTeamPIds[k]].position)
                           dx == deathPos.x - tp.x
                           dy == deathPos.y - tp.y
                       IN  dx * dx + dy * dy <= PROXIMITY_RADIUS * PROXIMITY_RADIUS
             objectiveNearby ==
                \E k \in 1..Len(objectiveEvents) :
                    Abs(objectiveEvents[k].timestamp - death.timestamp) <= OBJECTIVE_WINDOW_MS
         IN  ~hasNearbyTeammate /\ ~objectiveNearby

\* Lines 1110-1137: is the subject judged alive at this elite-monster kill?
AliveAt(obj, me, myPId, frames, myDeathTimestamps) ==
    LET before == SelectSeq(myDeathTimestamps, LAMBDA t : t < obj.timestamp)
    IN  IF before = <<>> \/ before[Len(before)] = 0 THEN TRUE
        ELSE LET recentDeath == before[Len(before)]
                 frame == NearestFrame(frames, obj.timestamp)
             IN  /\ myPId \in DOMAIN frame.participantFrames
                 /\ ~IsNull(frame.participantFrames[myPId].position)
                 /\ LET pos == Val(frame.participantFrames[myPId].position)
                        inFountain == IF me.teamId = 100
                                      THEN pos.x < FOUNTAIN_LOW /\ pos.y < FOUNTAIN_LOW
                                      ELSE pos.x > FOUNTAIN_HIGH /\ pos.y > FOUNTAIN_HIGH
                    IN  ~(obj.timestamp - recentDeath < RESPAWN_WINDOW_MS /\ inFountain)

\* Lines 1013-1139: the fields that need the timeline.
TimelineStats(base, me, participants, frames) ==
    LET myPId == PIdOf(me, participants)
        diffs == LaneDiffs(me, myPId, participants, frames)
        allEvents == FlatEvents(frames)
        killEvents == SelectSeq(allEvents, LAMBDA e : e.type = "CHAMPION_KILL")
        objectiveEvents == SelectSeq(allEvents,
            LAMBDA e : e.type = "ELITE_MONSTER_KILL" \/ e.type = "BUILDING_KILL")
        myDeaths == SelectSeq(killEvents, LAMBDA e : e.victimId = myPId)
        mates == SelectSeq(participants,
            LAMBDA p : p.teamId = me.teamId /\ PIdOf(p, participants) # myPId)
        myTeamPIds == [k \in 1..Len(mates) |-> PIdOf(mates[k], participants)]
        isolatedCount == Cardinality({k \in 1..Len(myDeaths) :
            IsIsolatedDeath(myDeaths[k], frames, myTeamPIds, objectiveEvents)})
        teamPIds == Range(myTeamPIds) \cup {myPId}
        teamObjEvents == SelectSeq(allEvents,
            LAMBDA e : e.type = "ELITE_MONSTER_KILL" /\ e.killerId \in teamPIds)
        myDeathTimestamps == [k \in 1..Len(myDeaths) |-> myDeaths[k].timestamp]
        aliveCount == Cardinality({k \in 1..Len(teamObjEvents) :
            AliveAt(teamObjEvents[k], me, myPId, frames, myDeathTimestamps)})
    IN  [base EXCEPT !.csDiff15 = diffs.csDiff15,
                     !.goldDiff15 = diffs.goldDiff15,
                     !.xpDiff15 = diffs.xpDiff15,
                     !.isolatedDeaths = Some(isolatedCount),
                     !.objectiveRate = IF Len(teamObjEvents) > 0
                                       THEN Some(RoundDiv(aliveCount * 1000, Len(teamObjEvents)))
                                       ELSE Null]

\* A text that JSON.parse rejects.
MalformedText == [json |-> Null]
ParseThrows(text) == DOMAIN text.json = {}

\* How the body of the try block ended, and the result object as it stood.
Returned(result) == [threw |-> FALSE, result |-> result]
Threw(result) == [threw |-> TRUE, result |-> result]

\* Lines 988-1139, the body of the try block. dmgGoldRatio is counted in
\* thousandths and objectiveRate in tenths of a percent (toFixed(3) and
\* toFixed(1)).
StatsTry(matchData, timelineData, myChampionName, myTeamId) ==
    IF IsString(matchData) /\ ParseThrows(matchData) THEN Threw(EmptyStats)
    ELSE LET info == IF IsString(matchData) THEN JSONparse(matchData) ELSE matchData
         IN  IF DOMAIN info = {} THEN Threw(EmptyStats)
             ELSE IF "participants" \notin DOMAIN info.info THEN Returned(EmptyStats)
             ELSE
    LET participants == info.info.participants
        found == Find(participants,
                      LAMBDA p : p.championName = myChampionName /\ p.teamId = myTeamId)
    IN  IF IsNull(found) THEN Returned(EmptyStats)
        ELSE LET me == Val(found)
                 base == [EmptyStats EXCEPT
                            !.firstBlood = Some(IF me.firstBloodKill \/ me.firstBloodAssist
                                                THEN 1 ELSE 0),
                            !.dmgGoldRatio = IF me.goldEarned > 0
                                THEN Some(RoundDiv(me.totalDamageDealtToChampions * 1000,
                                                   me.goldEarned))
                                ELSE Null]
             IN  IF DOMAIN timelineData = {} THEN Returned(base)
                 ELSE IF IsString(timelineData) /\ ParseThrows(timelineData) THEN Threw(base)
                 ELSE LET timeline == IF IsString(timelineData) THEN JSONparse(timelineData)
                                      ELSE timelineData
                      IN  IF "info" \notin DOMAIN timeline
                             \/ "frames" \notin DOMAIN timeline.info
                          THEN Returned(base)
                          ELSE Returned(TimelineStats(base, me, participants,
                                                      timeline.info.frames))

\* Lines 1141-1145: the catch block logs and the function returns result.
StatsCatch(body) == [completion |-> "return", value |-> body.result]

\* Lines 978-1146.
computeAdvancedStatsForMatch(matchData, timelineData, myChampionName, myTeamId) ==
    StatsCatch(StatsTry(matchData, timelineData, myChampionName, myTeamId)).value

\* ------------------------------------------------------------------ state

VARIABLES
    api,            \* the profile the external API serves for each match id
    matches,        \* the matches table: a set of rows
    pc,             \* position of the worker: "idle", "special", "collect", "batch", "bft", "bfa"
    ops,            \* number of top-level operations started
    allMatchIds,    \* syncMatches: ids of the general listings
    specialMatchIds,\* syncMatches: ids of the special-queue listings
    queueIdx,       \* syncMatches: index in SPECIAL_QUEUES of the queue being listed
    attempt,        \* syncMatches: attempt number for that queue
    specialLog,     \* per special queue: attempts made, waits slept, outcome
    matchIds,       \* syncMatches: the deduplicated processing list
    batchAt,        \* syncMatches: i, the offset of the current batch
    units,          \* syncMatches: the units of the current batch
    counters,       \* syncMatches: newMatches, skipped, processed, newMatchIds
    unitLog,        \* per id: what its unit of the current or last run did
    syncResult,     \* what the last syncMatches call returned (Null before)
    listed,         \* ids the listings of the current or last run returned
    prevSync,       \* summary of the sync run before the current or last one
    passes,         \* number of maintenance passes started
    bf,             \* the current or last maintenance pass
    prevPass,       \* summary of the maintenance pass before the current or last one
    calc,           \* one application of computeAdvancedStatsForMatch: input and outcome
    badgeCall,      \* one call of evaluateBadges: the match record and the outcome
    ranks,          \* the player_ranks table: a set of rows
    now,            \* the clock, in ms
    rankCall,       \* the last getPlayerRank call: arguments, table before, outcome
    rf,             \* the current or last fetchRanksForNewMatches run
    rankOps,        \* number of rank operations started
    ui,             \* the sync form: input fields, button, cooldown interval, last toast
    runs,           \* the handleSync invocations, in the order they were made
    view            \* the match table: loaded list, badge cache, expanded row

passVars == <<passes, bf, prevPass>>

uiVars == <<ui, runs, view>>

extVars == <<calc, badgeCall, ranks, now, rankCall, rf, rankOps, ui, runs, view>>

syncVars == <<allMatchIds, specialMatchIds, queueIdx, attempt, specialLog, matchIds,
              batchAt, units, counters, unitLog, syncResult, listed, prevSync>>

\* ------------------------------------------------------------ the store

\* The columns of the matches table that the modelled operations read back;
\* the remaining columns are subject statistics copied from the detail.
MakeRow(id, data, me, timelineData, advStats) ==
    LET info == data.info
        \* myTeam?.objectives || {} and then objectives[name]?.kills || 0
        Obj(t, name) == IF IsNull(t) THEN 0 ELSE Val(t).objectives[name].kills
        myTeam == Find(info.teams, LAMBDA t : t.teamId = me.teamId)
        mates == SelectSeq(info.participants, LAMBDA p : p.teamId = me.teamId)
        RECURSIVE SumKills(_)
        SumKills(ps) == IF ps = <<>> THEN 0 ELSE Head(ps).kills + SumKills(Tail(ps))
    IN  [matchId |-> id,
         queueId |-> info.queueId,
         gameCreation |-> info.gameCreation,
         gameDuration |-> Some(info.gameDuration),
         championName |-> me.championName,
         totalMinionsKilled |-> Some(me.totalMinionsKilled + me.neutralMinionsKilled),
         teamDragons |-> Some(Obj(myTeam, "dragon")),
         teamBarons |-> Some(Obj(myTeam, "baron")),
         teamRiftHeralds |-> Some(Obj(myTeam, "riftHerald")),
         teamId |-> me.teamId,
         teamKills |-> Some(SumKills(mates)),
         primaryRune |-> me.perk,
         rawJson |-> Some(JSONstringify(data)),
         timelineJson |-> IF IsNull(timelineData) THEN Null
                          ELSE Some(JSONstringify(Val(timelineData))),
         csDiff15 |-> advStats.csDiff15,
         goldDiff15 |-> advStats.goldDiff15,
         xpDiff15 |-> advStats.xpDiff15,
         firstBlood |-> advStats.firstBlood,
         dmgGoldRatio |-> advStats.dmgGoldRatio,
         isolatedDeaths |-> advStats.isolatedDeaths,
         objectiveRate |-> advStats.objectiveRate]

\* SELECT ... WHERE matchId = ?: one row or Null.
DbGetRow(store, id) ==
    IF \E r \in store : r.matchId = id
    THEN Some(CHOOSE r \in store : r.matchId = id)
    ELSE Null

\* INSERT INTO matches: matchId is the primary key, so a second row with the
\* same matchId is refused (the statement fails).
DbInsertFails(store, row) == \E r \in store : r.matchId = row.matchId
DbInsert(store, row) == store \cup {row}

\* UPDATE matches SET ... WHERE matchId = ?: gameCreation, queueId and
\* championName are not among the columns set.
DbUpdate(store, id, row) ==
    {IF r.matchId = id
     THEN [row EXCEPT !.gameCreation = r.gameCreation, !.queueId = r.queueId,
                      !.championName = r.championName]
     ELSE r : r \in store}

StoredIds(store) == {r.matchId : r \in store}

\* SELECT MAX(gameCreation) / MIN(gameCreation): Null on an empty table.
MaxCreation(store) ==
    IF store = {} THEN Null
    ELSE Some((CHOOSE r \in store : \A q \in store : ~TimeLess(r.gameCreation, q.gameCreation)).gameCreation)
MinCreation(store) ==
    IF store = {} THEN Null
    ELSE Some((CHOOSE r \in store : \A q \in store : ~TimeLess(q.gameCreation, r.gameCreation)).gameCreation)

\* --------------------------------------------------------- id listing

\* The ids the API holds for the subject, newest first.
RECURSIVE Descending(_)
Descending(n) == IF n = 0 THEN <<>> ELSE <<n>> \o Descending(n - 1)

\* What the listing endpoint holds for (startTime, queue): the matches created
\* at or after startTime that the queue parameter selects.
ApiListing(world, startTime, queue) ==
    SelectSeq(Descending(MaxIds),
              LAMBDA id : /\ CreationSec(id) >= startTime
                          /\ IF IsNull(queue) THEN world[id].listedByDefault
                             ELSE world[id].queueId = Val(queue))

\* getMatchIds: pages of PAGE_SIZE ids are requested from offset start until a
\* page comes back empty or short.
RECURSIVE GetMatchIdsFrom(_, _)
GetMatchIdsFrom(listing, start) ==
    LET page == SubSeq(listing, start + 1, Min(start + PAGE_SIZE, Len(listing)))
    IN  IF Len(page) = 0 THEN <<>>
        ELSE IF Len(page) < PAGE_SIZE THEN page
        ELSE page \o GetMatchIdsFrom(listing, start + PAGE_SIZE)

getMatchIds(world, startTime, queue) == GetMatchIdsFrom(ApiListing(world, startTime, queue), 0)

\* A processing list that keeps every collected id, repeats included.
DedupNone(seq) == seq

\* A processing list that keeps the last occurrence of every id.
RECURSIVE DedupKeepsLast(_)
DedupKeepsLast(seq) ==
    IF seq = <<>> THEN <<>>
    ELSE IF Head(seq) \in Range(Tail(seq)) THEN DedupKeepsLast(Tail(seq))
    ELSE <<Head(seq)>> \o DedupKeepsLast(Tail(seq))

\* [...new Set(allMatchIds)]: first occurrences, in order.
RECURSIVE Dedup(_)
Dedup(seq) ==
    IF seq = <<>> THEN <<>>
    ELSE LET front == Dedup(SubSeq(seq, 1, Len(seq) - 1))
             last == seq[Len(seq)]
         IN  IF last \in Range(front) THEN front ELSE Append(front, last)

\* Lines 718-751: the ids of the general listings, given the table.
GeneralIds(world, store) ==
    LET latest == MaxCreation(store)
        oldest == MinCreation(store)
    IN  IF ~IsNull(latest)
        THEN LET forwardMatches == getMatchIds(world, FloorSeconds(Val(latest)) + 1, Null)
                 backwardMatches == getMatchIds(world, RANKED_SEASON_START, Null)
                 missingMatches == SelectSeq(backwardMatches, LAMBDA id : id \notin StoredIds(store))
             IN  IF FloorSeconds(Val(oldest)) > RANKED_SEASON_START + SECONDS_PER_DAY
                 THEN [ids |-> forwardMatches \o missingMatches,
                       listed |-> Range(forwardMatches) \cup Range(backwardMatches)]
                 ELSE [ids |-> forwardMatches, listed |-> Range(forwardMatches)]
        ELSE LET first == getMatchIds(world, RANKED_SEASON_START, Null)
             IN  [ids |-> first, listed |-> Range(first)]

\* ------------------------------------------------------------ syncMatches

NoSpecialLog == [attempts |-> 0, waits |-> <<>>, outcome |-> "none", idsBefore |-> <<>>]
\* collected is allMatchIds.length after the special ids were prepended.
ZeroCounters ==
    [newMatches |-> 0, skipped |-> 0, processed |-> 0, newMatchIds |-> <<>>, collected |-> 0]
NoPrevSync == [ran |-> FALSE, resolved |-> FALSE, listed |-> {}, errors |-> {}]

Resolved(newMatches, skipped, total, newMatchIds) ==
    Some([status |-> "resolved", newMatches |-> newMatches, skipped |-> skipped,
          total |-> total, newMatchIds |-> newMatchIds])
Rejected ==
    Some([status |-> "rejected", newMatches |-> 0, skipped |-> 0, total |-> 0,
          newMatchIds |-> Null])

\* A retry loop that waits the same time before every attempt.
BackoffFlat(n) == BACKOFF_UNIT_MS

\* Line 773: the wait before the next attempt.
Backoff(n) == BACKOFF_UNIT_MS * (n + 1)

\* Line 817.
needsFetch(row) ==
    \/ IsNull(row)
    \/ IsNull(Val(row).gameDuration)
    \/ IsNull(Val(row).totalMinionsKilled)
    \/ IsNull(Val(row).teamDragons)
    \/ IsNull(Val(row).teamBarons)
    \/ IsNull(Val(row).teamRiftHeralds)
    \/ IsNull(Val(row).primaryRune)
    \/ IsNull(Val(row).teamKills)
    \/ IsNull(Val(row).timelineJson)

\* A unit that reports every written record as new.
ResultTypeNew(row) == "new"

\* Line 948: the value a unit that wrote its record resolves to.
ResultType(row) == IF IsNull(row) THEN "new" ELSE "updated"

\* A unit that counts a new match on the update branch too.
NewIncrementAlways(row) == 1

\* Lines 908-909: only the insert branch counts a new match.
NewIncrement(row) == IF IsNull(row) THEN 1 ELSE 0

\* Lines 955-958: a throw inside the unit is caught and becomes its value.
UnitCatch(unit) == [unit EXCEPT !.st = "settled", !.value = "error"]

\* A timeline fetch without its own try/catch: the failure reaches the catch
\* of the unit.
TimelineFailedThrows(unit) == UnitCatch([unit EXCEPT !.tlFailed = TRUE])

\* Lines 828-834: the timeline fetch has its own try/catch; a failure leaves
\* timelineData null and the unit goes on.
TimelineFailed(unit) == [unit EXCEPT !.st = "persist", !.tl = Null, !.tlFailed = TRUE]

\* Promise.all over units that rethrow: the first failure rejects the batch.
BatchAwaitFailFast(us) ==
    IF \E k \in DOMAIN us : us[k].value = "error" THEN "rejected"
    ELSE IF \A k \in DOMAIN us : us[k].st = "settled" THEN "fulfilled" ELSE "pending"

\* Line 810: Promise.allSettled waits for every unit and never rejects.
BatchAwait(us) ==
    IF \A k \in DOMAIN us : us[k].st = "settled" THEN "fulfilled" ELSE "pending"

\* A batch that takes one id more than BATCH_SIZE.
NewUnitsOneMore(ids, i) ==
    LET batch == SubSeq(ids, i + 1, Min(i + BATCH_SIZE + 1, Len(ids)))
    IN  [k \in 1..Len(batch) |->
            [id |-> batch[k], st |-> "getRow", row |-> Null, tl |-> Null, value |-> "pending",
             tlFailed |-> FALSE, dbFailed |-> FALSE, wrote |-> "none"]]

\* Line 808: matchIds.slice(i, i + BATCH_SIZE), one fresh unit per id.
NewUnits(ids, i) ==
    LET batch == SubSeq(ids, i + 1, Min(i + BATCH_SIZE, Len(ids)))
    IN  [k \in 1..Len(batch) |->
            [id |-> batch[k], st |-> "getRow", row |-> Null, tl |-> Null, value |-> "pending",
             tlFailed |-> FALSE, dbFailed |-> FALSE, wrote |-> "none"]]

\* Lines 711-751: syncMatches starts; it reads the cursors and lists the
\* general ids. A failing store read or listing call rejects the whole call.
SyncStart ==
    /\ pc = "idle"
    /\ ops < MaxOps
    /\ ops' = ops + 1
    /\ prevSync' = IF IsNull(syncResult) THEN NoPrevSync
                   ELSE [ran |-> TRUE,
                         resolved |-> Val(syncResult).status = "resolved",
                         listed |-> listed,
                         errors |-> {id \in Ids : unitLog[id] = "error"}]
    /\ unitLog' = [id \in Ids |-> "none"]
    /\ specialLog' = NoSpecialLog
    /\ specialMatchIds' = <<>>
    /\ matchIds' = <<>>
    /\ counters' = ZeroCounters
    /\ batchAt' = 0
    /\ units' = <<>>
    /\ queueIdx' = 1
    /\ attempt' = 0
    /\ \E ok \in BOOLEAN :
        IF ok
        THEN LET g == GeneralIds(api, matches)
             IN  /\ allMatchIds' = g.ids
                 /\ listed' = g.listed
                 /\ syncResult' = Null
                 /\ pc' = "special"
        ELSE /\ allMatchIds' = <<>>
             /\ listed' = {}
             /\ syncResult' = Rejected
             /\ pc' = "idle"
    /\ UNCHANGED <<api, matches>>
    /\ UNCHANGED passVars
    /\ UNCHANGED extVars

\* After the listing of one special queue has ended (with ids or given up).
NextQueue ==
    IF queueIdx < Len(SPECIAL_QUEUES)
    THEN /\ queueIdx' = queueIdx + 1
         /\ attempt' = 0
         /\ pc' = "special"
    ELSE /\ UNCHANGED queueIdx
         /\ attempt' = 0
         /\ pc' = "collect"

\* Lines 759-780: one attempt to list one special queue. specialLog follows
\* the queue being listed: the attempts made, the waits slept between them and
\* how the listing ended.
SpecialAttempt ==
    /\ pc = "special"
    /\ LET log == IF attempt = 0
                  THEN [NoSpecialLog EXCEPT !.idsBefore = specialMatchIds]
                  ELSE specialLog
       IN  \E ok \in BOOLEAN :
            IF ok
            THEN LET specialMatches ==
                        getMatchIds(api, RANKED_SEASON_START, Some(SPECIAL_QUEUES[queueIdx]))
                 IN  /\ specialMatchIds' = specialMatchIds \o specialMatches
                     /\ listed' = listed \cup Range(specialMatches)
                     /\ specialLog' = [log EXCEPT !.attempts = @ + 1, !.outcome = "listed"]
                     /\ NextQueue
            ELSE /\ UNCHANGED <<specialMatchIds, listed>>
                 /\ IF attempt < MAX_RETRIES
                    THEN /\ specialLog' = [log EXCEPT !.attempts = @ + 1,
                                                      !.waits = Append(@, Backoff(attempt))]
                         /\ attempt' = attempt + 1
                         /\ UNCHANGED <<queueIdx, pc>>
                    ELSE /\ specialLog' = [log EXCEPT !.attempts = @ + 1,
                                                      !.outcome = "skipped"]
                         /\ NextQueue
    /\ UNCHANGED <<api, matches, ops, allMatchIds, matchIds, batchAt, units, counters,
                   unitLog, syncResult, prevSync>>
    /\ UNCHANGED passVars
    /\ UNCHANGED extVars

\* Lines 782-804: prepend the special ids, deduplicate, return early when
\* there is nothing to process, else start the first batch. The locals of the
\* listing phase are dead from here on and are cleared.
SyncCollect ==
    /\ pc = "collect"
    /\ LET ids == Dedup(specialMatchIds \o allMatchIds)
       IN  /\ matchIds' = ids
           /\ IF Len(ids) = 0
              THEN /\ syncResult' = Resolved(0, 0, 0, Null)
                   /\ pc' = "idle"
                   /\ units' = <<>>
                   /\ unitLog' = unitLog
              ELSE /\ syncResult' = Null
                   /\ pc' = "batch"
                   /\ units' = NewUnits(ids, 0)
                   /\ unitLog' = [id \in Ids |->
                        IF id \in Range(SubSeq(ids, 1, Min(BATCH_SIZE, Len(ids))))
                        THEN "pending" ELSE unitLog[id]]
    /\ specialLog' = NoSpecialLog
    /\ counters' = [ZeroCounters EXCEPT !.collected = Len(specialMatchIds \o allMatchIds)]
    /\ allMatchIds' = <<>>
    /\ specialMatchIds' = <<>>
    /\ queueIdx' = 1
    /\ attempt' = 0
    /\ UNCHANGED <<api, matches, ops, batchAt, listed, prevSync>>
    /\ UNCHANGED passVars
    /\ UNCHANGED extVars

\* The unit u ends with the given record and value.
Settle(u, unit) ==
    /\ units' = [units EXCEPT ![u] = unit]
    /\ unitLog' = [unitLog EXCEPT ![unit.id] = unit.value]

Throw(u) == Settle(u, UnitCatch(units[u]))

\* Lines 814-819 and 950-954: read the stored row and decide.
UnitGetRow(u) ==
    /\ pc = "batch"
    /\ u \in DOMAIN units
    /\ units[u].st = "getRow"
    /\ \E ok \in BOOLEAN :
        IF ~ok
        THEN Throw(u) /\ UNCHANGED counters
        ELSE LET row == DbGetRow(matches, units[u].id)
             IN  IF needsFetch(row)
                 THEN /\ units' = [units EXCEPT ![u].st = "detail", ![u].row = row]
                      /\ UNCHANGED <<counters, unitLog>>
                 ELSE /\ Settle(u, [units[u] EXCEPT !.st = "settled", !.row = row,
                                                     !.value = "skipped"])
                      /\ counters' = [counters EXCEPT !.skipped = @ + 1]
    /\ UNCHANGED <<api, matches, pc, ops, allMatchIds, specialMatchIds, queueIdx, attempt,
                   specialLog, matchIds, batchAt, syncResult, listed, prevSync>>
    /\ UNCHANGED passVars
    /\ UNCHANGED extVars

\* Line 826: getMatchData.
UnitFetchDetail(u) ==
    /\ pc = "batch"
    /\ u \in DOMAIN units
    /\ units[u].st = "detail"
    /\ \E ok \in BOOLEAN :
        IF ok
        THEN /\ units' = [units EXCEPT ![u].st = "timeline"]
             /\ UNCHANGED unitLog
        ELSE Throw(u)
    /\ UNCHANGED <<api, matches, pc, ops, allMatchIds, specialMatchIds, queueIdx, attempt,
                   specialLog, matchIds, batchAt, counters, syncResult, listed, prevSync>>
    /\ UNCHANGED passVars
    /\ UNCHANGED extVars

\* Lines 828-834: getMatchTimeline, whose failure leaves timelineData null.
UnitFetchTimeline(u) ==
    /\ pc = "batch"
    /\ u \in DOMAIN units
    /\ units[u].st = "timeline"
    /\ \E ok \in BOOLEAN :
        LET unit == IF ok
                    THEN [units[u] EXCEPT !.st = "persist",
                                          !.tl = Some(ApiTimeline(units[u].id))]
                    ELSE TimelineFailed(units[u])
        IN  /\ units' = [units EXCEPT ![u] = unit]
            /\ unitLog' = [unitLog EXCEPT ![unit.id] = unit.value]
    /\ UNCHANGED <<api, matches, pc, ops, allMatchIds, specialMatchIds, queueIdx, attempt,
                   specialLog, matchIds, batchAt, counters, syncResult, listed, prevSync>>
    /\ UNCHANGED passVars
    /\ UNCHANGED extVars

\* Lines 835-949: find the subject, compute the statistics, insert or update.
\* Without the subject the function ends without a return statement.
UnitPersist(u) ==
    /\ pc = "batch"
    /\ u \in DOMAIN units
    /\ units[u].st = "persist"
    /\ LET unit == units[u]
           id == unit.id
           data == ApiDetail(id, api[id])
           found == Find(data.info.participants, LAMBDA p : p.puuid = PUUID)
       IN  IF IsNull(found)
           THEN /\ Settle(u, [unit EXCEPT !.st = "settled", !.value = "undefined"])
                /\ UNCHANGED <<matches, counters>>
           ELSE LET me == Val(found)
                    timelineData == IF IsNull(unit.tl) THEN Null ELSE Val(unit.tl)
                    advStats == computeAdvancedStatsForMatch(data, timelineData,
                                                             me.championName, me.teamId)
                    row == MakeRow(id, data, me, unit.tl, advStats)
                IN  \E dbOk \in BOOLEAN :
                      IF IsNull(unit.row)
                      THEN IF ~dbOk \/ DbInsertFails(matches, row)
                           THEN /\ Settle(u, UnitCatch([unit EXCEPT !.dbFailed = TRUE]))
                                /\ UNCHANGED <<matches, counters>>
                           ELSE /\ matches' = DbInsert(matches, row)
                                /\ counters' = [counters EXCEPT
                                        !.newMatches = @ + NewIncrement(unit.row),
                                        !.newMatchIds = Append(@, id)]
                                /\ Settle(u, [unit EXCEPT !.st = "settled",
                                        !.value = ResultType(unit.row), !.wrote = "insert"])
                      ELSE IF ~dbOk
                           THEN /\ Settle(u, UnitCatch([unit EXCEPT !.dbFailed = TRUE]))
                                /\ UNCHANGED <<matches, counters>>
                           ELSE /\ matches' = DbUpdate(matches, id, row)
                                /\ counters' = [counters EXCEPT
                                        !.newMatches = @ + NewIncrement(unit.row)]
                                /\ Settle(u, [unit EXCEPT !.st = "settled",
                                        !.value = ResultType(unit.row), !.wrote = "update"])
    /\ UNCHANGED <<api, pc, ops, allMatchIds, specialMatchIds, queueIdx, attempt,
                   specialLog, matchIds, batchAt, syncResult, listed, prevSync>>
    /\ UNCHANGED passVars
    /\ UNCHANGED extVars

\* Lines 962-974: the batch has settled; start the next one or return.
BatchEnd ==
    /\ pc = "batch"
    /\ BatchAwait(units) # "pending"
    /\ IF BatchAwait(units) = "rejected"
       THEN /\ syncResult' = Rejected
            /\ pc' = "idle"
            /\ UNCHANGED <<counters, batchAt, units, unitLog>>
       ELSE /\ counters' = [counters EXCEPT !.processed = @ + Len(units)]
            /\ IF batchAt + BATCH_SIZE < Len(matchIds)
               THEN /\ batchAt' = batchAt + BATCH_SIZE
                    /\ units' = NewUnits(matchIds, batchAt + BATCH_SIZE)
                    /\ unitLog' = [id \in Ids |->
                            IF id \in Range(SubSeq(matchIds, batchAt + BATCH_SIZE + 1,
                                    Min(batchAt + 2 * BATCH_SIZE, Len(matchIds))))
                            THEN "pending" ELSE unitLog[id]]
                    /\ UNCHANGED <<syncResult, pc>>
               ELSE /\ syncResult' = Resolved(counters.newMatches, counters.skipped,
                                              Len(matchIds), Some(counters.newMatchIds))
                    /\ pc' = "idle"
                    /\ UNCHANGED <<batchAt, units, unitLog>>
    /\ UNCHANGED <<api, matches, ops, allMatchIds, specialMatchIds, queueIdx, attempt,
                   specialLog, matchIds, listed, prevSync>>
    /\ UNCHANGED passVars
    /\ UNCHANGED extVars

\* ------------------------------------------------- maintenance passes

\* Number of maintenance passes in one behaviour.
MaxPasses == 2

\* ORDER BY gameCreation DESC.
RECURSIVE OrderByCreationDesc(_)
OrderByCreationDesc(rows) ==
    IF rows = {} THEN <<>>
    ELSE LET newest == CHOOSE r \in rows :
                            \A q \in rows : ~TimeLess(r.gameCreation, q.gameCreation)
         IN  <<newest>> \o OrderByCreationDesc(rows \ {newest})

\* Line 1162: SELECT matchId FROM matches WHERE timelineJson IS NULL.
TimelineBackfillRows(store) ==
    OrderByCreationDesc({r \in store : IsNull(r.timelineJson)})

\* Lines 1198-1200: ... WHERE rawJson IS NOT NULL AND csDiff15 IS NULL.
StatsBackfillRows(store) ==
    OrderByCreationDesc({r \in store : ~IsNull(r.rawJson) /\ IsNull(r.csDiff15)})

\* Line 1176: UPDATE matches SET timelineJson = ? WHERE matchId = ?.
SetTimeline(store, id, timelineData) ==
    {IF r.matchId = id THEN [r EXCEPT !.timelineJson = Some(JSONstringify(timelineData))]
     ELSE r : r \in store}

\* An UPDATE that adds the computed firstBlood to the stored one.
SetStatsAccumulate(store, id, stats) ==
    {IF r.matchId = id
     THEN [r EXCEPT !.csDiff15 = stats.csDiff15, !.goldDiff15 = stats.goldDiff15,
                    !.xpDiff15 = stats.xpDiff15,
                    !.firstBlood = Some(Val(r.firstBlood) + Val(stats.firstBlood)),
                    !.dmgGoldRatio = stats.dmgGoldRatio,
                    !.isolatedDeaths = stats.isolatedDeaths,
                    !.objectiveRate = stats.objectiveRate]
     ELSE r : r \in store}

\* Lines 1213-1216: UPDATE matches SET csDiff15 = ?, ... WHERE matchId = ?.
SetStats(store, id, stats) ==
    {IF r.matchId = id
     THEN [r EXCEPT !.csDiff15 = stats.csDiff15, !.goldDiff15 = stats.goldDiff15,
                    !.xpDiff15 = stats.xpDiff15, !.firstBlood = stats.firstBlood,
                    !.dmgGoldRatio = stats.dmgGoldRatio,
                    !.isolatedDeaths = stats.isolatedDeaths,
                    !.objectiveRate = stats.objectiveRate]
     ELSE r : r \in store}

NoResponses == [id \in Ids |-> "none"]
NoFetches == [id \in Ids |-> 0]
NoPass ==
    [kind |-> "none", status |-> "none", rows |-> <<>>, at |-> 0, updated |-> 0, failed |-> 0,
     total |-> 0, resp |-> NoResponses, fetches |-> NoFetches, before |-> {},
     syncsBefore |-> 0]
NoPrevPass == [kind |-> "none", status |-> "none", resp |-> NoResponses, after |-> {}]

\* What is remembered of the last pass when the next one starts.
PassSummary == [kind |-> bf.kind, status |-> bf.status, resp |-> bf.resp, after |-> matches]

\* A pass starts: the rows are selected once; a failing SELECT rejects the
\* call, an empty selection returns at once (lines 1162-1166, 1198-1204).
PassStart(kind, rows) ==
    /\ pc = "idle"
    /\ passes < MaxPasses
    /\ passes' = passes + 1
    /\ prevPass' = PassSummary
    /\ \E ok \in BOOLEAN :
        IF ~ok
        THEN /\ bf' = [NoPass EXCEPT !.kind = kind, !.status = "rejected", !.before = matches,
                                     !.syncsBefore = ops]
             /\ pc' = "idle"
        ELSE /\ bf' = [NoPass EXCEPT !.kind = kind, !.rows = rows, !.total = Len(rows),
                                     !.before = matches, !.syncsBefore = ops,
                                     !.status = IF Len(rows) = 0 THEN "resolved" ELSE "running"]
             /\ pc' = IF Len(rows) = 0 THEN "idle" ELSE kind
    /\ UNCHANGED <<api, matches, ops>>
    /\ UNCHANGED syncVars
    /\ UNCHANGED extVars

backfillTimelinesStart == PassStart("bft", TimelineBackfillRows(matches))

backfillAdvancedStatsStart == PassStart("bfa", StatsBackfillRows(matches))

\* A catch block that forgets to count the failure.
CountFailedNot(pass) == pass

\* Lines 1179-1182: a throw inside one iteration is counted and the loop goes on.
CountFailed(pass) == [pass EXCEPT !.failed = @ + 1]

\* The loop variable advances; after the last row the call returns.
PassAdvance(next) ==
    /\ bf' = [next EXCEPT !.at = @ + 1,
                          !.status = IF bf.at + 1 = Len(bf.rows) THEN "resolved" ELSE "running"]
    /\ pc' = IF bf.at + 1 = Len(bf.rows) THEN "idle" ELSE pc

\* Lines 1172-1190: one iteration of backfillTimelines. The timeline fetch or
\* the store write may throw; either is counted as failed.
backfillTimelinesStep ==
    /\ pc = "bft"
    /\ LET matchId == bf.rows[bf.at + 1].matchId
       IN  \E resp \in {"ok", "fetchFail", "dbFail"} :
            LET seen == [bf EXCEPT !.resp[matchId] = resp, !.fetches[matchId] = @ + 1]
            IN  IF resp = "ok"
                THEN /\ matches' = SetTimeline(matches, matchId, ApiTimeline(matchId))
                     /\ PassAdvance([seen EXCEPT !.updated = @ + 1])
                ELSE /\ matches' = matches
                     /\ PassAdvance(CountFailed(seen))
    /\ UNCHANGED <<api, ops, passes, prevPass>>
    /\ UNCHANGED syncVars
    /\ UNCHANGED extVars

\* Lines 1209-1223: one iteration of backfillAdvancedStats, on the row as it
\* was selected when the pass started. A failing store write is only logged.
backfillAdvancedStatsStep ==
    /\ pc = "bfa"
    /\ LET row == bf.rows[bf.at + 1]
           stats == computeAdvancedStatsForMatch(Val(row.rawJson),
                        IF IsNull(row.timelineJson) THEN Null ELSE Val(row.timelineJson),
                        row.championName, row.teamId)
       IN  \E resp \in {"ok", "dbFail"} :
            LET seen == [bf EXCEPT !.resp[row.matchId] = resp]
            IN  IF resp = "ok"
                THEN /\ matches' = SetStats(matches, row.matchId, stats)
                     /\ PassAdvance([seen EXCEPT !.updated = @ + 1])
                ELSE /\ matches' = matches
                     /\ PassAdvance(seen)
    /\ UNCHANGED <<api, ops, passes, prevPass>>
    /\ UNCHANGED syncVars
    /\ UNCHANGED extVars

\* ------------------------------------- derived statistics, applied alone

\* How the four participants of a sample match are labelled: one per lane on
\* each team; no label at all; a mode without positions, where the lane field
\* carries the same value for every participant; two participants of the
\* first team sharing a label.
SampleLabels ==
    { [teamPosition |-> <<"MIDDLE", "BOTTOM", "MIDDLE", "BOTTOM">>, lane |-> <<"", "", "", "">>],
      [teamPosition |-> <<"", "", "", "">>, lane |-> <<"", "", "", "">>],
      [teamPosition |-> <<"", "", "", "">>, lane |-> <<"MIDDLE", "MIDDLE", "MIDDLE", "MIDDLE">>],
      [teamPosition |-> <<"MIDDLE", "MIDDLE", "MIDDLE", "BOTTOM">>, lane |-> <<"", "", "", "">>] }

SampleChampions == <<"Ahri", "Jinx", "Zed", "Lux">>
SampleTeamOf(pid) == IF pid <= 2 THEN 100 ELSE 200

\* A detail payload with participants 1 and 2 on team 100 and 3 and 4 on team
\* 200; participant 2 earned no gold.
SampleDetail(labels) ==
    [info |->
        [queueId |-> RANKED_SOLO_QUEUE,
         gameCreation |-> GameCreation(1),
         gameDuration |-> 1800,
         participants |->
            [pid \in 1..4 |->
                [Participant(pid, "puuid", SampleChampions[pid], SampleTeamOf(pid),
                             labels.teamPosition[pid], IF pid = 2 THEN 0 ELSE 9000 + 500 * pid,
                             12000 + 700 * pid, pid = 3, pid, Null)
                 EXCEPT !.lane = labels.lane[pid]]],
         teams |-> << Team(100, 1, 0, 0), Team(200, 0, 0, 0) >>]]

\* The deaths of participant 1 in a sample timeline: when, and whether the
\* event carries a position.
SampleDeaths ==
    { <<>>,
      << [timestamp |-> 50000, hasPosition |-> TRUE] >>,
      << [timestamp |-> 70000, hasPosition |-> TRUE] >>,
      << [timestamp |-> 50000, hasPosition |-> FALSE], [timestamp |-> 70000, hasPosition |-> TRUE] >> }

\* The elite-monster kill of a sample timeline: none, or by whom and when.
SampleObjectives ==
    { [killerId |-> k, timestamp |-> t] : k \in {1, 2, 3}, t \in {55000, 110000} }
    \cup { [killerId |-> 0, timestamp |-> 0] }

FarAway == Pos(12000, 3000)
MidLane == Pos(7000, 7000)
NextToMidLane == Pos(7100, 7100)

\* A two-frame timeline (minutes 0 and 1). Participant 1 stands in its
\* fountain at minute 0 and in the mid lane at minute 1 and dies in the mid
\* lane; participant 2 is next to the mid lane at the frames allyNear names.
SampleTimeline(deaths, allyNear, obj) ==
    LET Frame(k, events) ==
            [participantFrames |->
                (1 :> PFrame(10 * k, k, 500 + 400 * k, 300 * k,
                             IF k = 0 THEN Pos(500, 500) ELSE MidLane) @@
                 2 :> PFrame(6 * k, 0, 500 + 300 * k, 250 * k,
                             IF allyNear[k + 1] THEN NextToMidLane ELSE FarAway) @@
                 3 :> PFrame(8 * k, 3 * k, 500 + 450 * k, 320 * k, Pos(7500, 7500)) @@
                 4 :> PFrame(2 * k, 0, 500 + 200 * k, 200 * k, Pos(14000, 14000))),
             events |-> events]
        kills == [k \in 1..Len(deaths) |->
                    Event("CHAMPION_KILL", deaths[k].timestamp, 3, 1,
                          IF deaths[k].hasPosition THEN MidLane ELSE Null)]
        monster == IF obj.killerId = 0 THEN <<>>
                   ELSE << Event("ELITE_MONSTER_KILL", obj.timestamp, obj.killerId, 0,
                                 Pos(9800, 4400)) >>
    IN  [info |-> [frames |-> << Frame(0, <<>>), Frame(1, kills \o monster) >>]]

SampleTimelines ==
    { SampleTimeline(d, n, o) :
        d \in SampleDeaths, n \in {<<a, b>> : a, b \in BOOLEAN}, o \in SampleObjectives }

\* A timeline payload without frames, and one with an empty frame list.
TimelineWithoutFrames == [info |-> [frameInterval |-> FRAME_MS]]
TimelineWithNoFrame == [info |-> [frames |-> <<>>]]
\* A detail payload without participant list.
DetailWithoutParticipants == [info |-> [queueId |-> RANKED_SOLO_QUEUE]]

NoCalc ==
    [phase |-> "idle", matchData |-> Null, timelineData |-> Null, championName |-> "",
     teamId |-> 0, detail |-> Null, timeline |-> Null, subject |-> 0,
     out |-> [completion |-> "none", value |-> EmptyStats]]

\* The calls made on well-formed payloads: every sample match, every
\* participant (or a champion that did not play) as subject, with every sample
\* timeline or none, the payloads passed as objects or as stored text.
WellFormedCalls ==
    { [NoCalc EXCEPT !.phase = "called",
            !.matchData = IF asText THEN JSONstringify(SampleDetail(l)) ELSE SampleDetail(l),
            !.timelineData = IF asText THEN JSONstringify(tl) ELSE tl,
            !.championName = IF subject = 0 THEN "Teemo" ELSE SampleChampions[subject],
            !.teamId = IF subject = 0 THEN 100 ELSE SampleTeamOf(subject),
            !.detail = SampleDetail(l), !.timeline = tl, !.subject = subject] :
        l \in SampleLabels, tl \in SampleTimelines, subject \in 0..4, asText \in BOOLEAN }

\* The calls made on missing or malformed payloads.
DegenerateCalls ==
    { [NoCalc EXCEPT !.phase = "called", !.matchData = md, !.timelineData = td,
            !.championName = "Ahri", !.teamId = 100, !.subject = 1] :
        md \in { Null, MalformedText, DetailWithoutParticipants,
                 SampleDetail(CHOOSE l \in SampleLabels : l.teamPosition[1] = "MIDDLE"
                                                          /\ l.teamPosition[2] = "BOTTOM") },
        td \in { Null, MalformedText, TimelineWithoutFrames, TimelineWithNoFrame,
                 JSONstringify(TimelineWithoutFrames), JSONstringify(TimelineWithNoFrame) } }

\* A sample timeline whose last frame carries no position for participant 1.
WithoutSubjectPosition(tl) ==
    [tl EXCEPT !.info.frames[2].participantFrames[1].position = Null]

\* The calls made for participant 1 on timelines that lack its position.
UnpositionedCalls ==
    { [NoCalc EXCEPT !.phase = "called",
            !.matchData = SampleDetail(l),
            !.timelineData = WithoutSubjectPosition(SampleTimeline(d, <<FALSE, FALSE>>, o)),
            !.championName = SampleChampions[1], !.teamId = SampleTeamOf(1),
            !.detail = SampleDetail(l),
            !.timeline = WithoutSubjectPosition(SampleTimeline(d, <<FALSE, FALSE>>, o)),
            !.subject = 1] :
        l \in {q \in SampleLabels : q.teamPosition[1] = "MIDDLE" /\ q.teamPosition[2] = "BOTTOM"},
        d \in SampleDeaths, o \in SampleObjectives }

\* computeAdvancedStatsForMatch is called and completes.
ComputeStats ==
    /\ calc.phase = "called"
    /\ calc' = [calc EXCEPT !.phase = "done",
                    !.out = StatsCatch(StatsTry(calc.matchData, calc.timelineData,
                                                calc.championName, calc.teamId))]
    /\ UNCHANGED <<api, matches, pc, ops, badgeCall, ranks, now, rankCall, rf, rankOps>>
    /\ UNCHANGED syncVars
    /\ UNCHANGED passVars
    /\ UNCHANGED uiVars

\* ---------------------------------------------------------------- badges

\* Lines 6-8: dist(a, b) <= range and dist(a, b) >= range, on squares.
DistAtMost(a, b, range) ==
    (a.x - b.x) * (a.x - b.x) + (a.y - b.y) * (a.y - b.y) <= range * range
DistAtLeast(a, b, range) ==
    (a.x - b.x) * (a.x - b.x) + (a.y - b.y) * (a.y - b.y) >= range * range

\* Lines 11-15. pos is Null or Some(position).
isInBase(pos, teamId) ==
    IF IsNull(pos) THEN FALSE
    ELSE IF teamId = 100 THEN Val(pos).x < 2500 /\ Val(pos).y < 2500
    ELSE Val(pos).x > 12500 /\ Val(pos).y > 12500

\* Lines 17-21.
isInFountain(pos, teamId) ==
    IF IsNull(pos) THEN FALSE
    ELSE IF teamId = 100 THEN Val(pos).x < 1200 /\ Val(pos).y < 1200
    ELSE Val(pos).x > 13800 /\ Val(pos).y > 13800

\* Lines 24-29.
isInJungleSide(pos, teamId) ==
    IF IsNull(pos) THEN FALSE
    ELSE IF teamId = 100
         THEN Val(pos).x < 9000 /\ Val(pos).y < 9000 /\ ~isInBase(pos, 100)
         ELSE Val(pos).x > 6000 /\ Val(pos).y > 6000 /\ ~isInBase(pos, 200)

\* Lines 33-41: the first frame at the least distance in time, Null when
\* there is no frame.
getNearestFrame(frames, timestamp) ==
    IF frames = <<>> THEN Null
    ELSE LET best == CHOOSE k \in 1..Len(frames) :
                        /\ \A j \in 1..Len(frames) :
                                Abs(frames[k].timestamp - timestamp)
                                    <= Abs(frames[j].timestamp - timestamp)
                        /\ \A j \in 1..(k - 1) :
                                Abs(frames[j].timestamp - timestamp)
                                    > Abs(frames[k].timestamp - timestamp)
         IN  Some(frames[best])

\* Lines 43-45: frame is Null or Some(frame); the result is Null or
\* Some(position). An id of 0 stands for null, which is no key of the frame.
getPlayerPos(frame, pId) ==
    IF IsNull(frame) \/ pId \notin DOMAIN Val(frame).participantFrames THEN Null
    ELSE Val(frame).participantFrames[pId].position

\* Lines 47-49.
getPlayerGold(frame, pId) ==
    IF IsNull(frame) \/ pId \notin DOMAIN Val(frame).participantFrames THEN 0
    ELSE Val(frame).participantFrames[pId].totalGold

\* Lines 51-58.
countNearby(frame, ids, position, range) ==
    Cardinality({k \in 1..Len(ids) :
        /\ ~IsNull(getPlayerPos(frame, ids[k]))
        /\ DistAtMost(Val(getPlayerPos(frame, ids[k])), position, range)})

\* The assistingParticipantIds of an event: absent, an array of ids, or a
\* value that is no array (a number), on which .includes and .filter throw.
NoAssists == [kind |-> "absent", ids |-> <<>>]
Assists(ids) == [kind |-> "array", ids |-> ids]
AssistsNotAnArray == [kind |-> "number", ids |-> <<>>]

\* Lines 60-62: "true", "false" or "throw".
didParticipate(event, myPId) ==
    IF event.killerId = myPId THEN "true"
    ELSE IF event.assistingParticipantIds.kind = "number" THEN "throw"
    ELSE IF myPId \in Range(event.assistingParticipantIds.ids) THEN "true"
    ELSE "false"

\* Lines 64-70.
RECURSIVE getTeamGold(_, _)
getTeamGold(frame, teamIds) ==
    IF teamIds = <<>> THEN 0
    ELSE getPlayerGold(Some(frame), Head(teamIds)) + getTeamGold(frame, Tail(teamIds))

\* Array.prototype.sort by timestamp (stable): insertion into a sorted list.
RECURSIVE SortByTimestamp(_)
SortByTimestamp(events) ==
    IF events = <<>> THEN <<>>
    ELSE LET rest == SortByTimestamp(SubSeq(events, 1, Len(events) - 1))
             last == events[Len(events)]
             before == SelectSeq(rest, LAMBDA e : e.timestamp <= last.timestamp)
             after == SelectSeq(rest, LAMBDA e : e.timestamp > last.timestamp)
         IN  before \o <<last>> \o after

RECURSIVE SumOfKills(_)
SumOfKills(ps) == IF ps = <<>> THEN 0 ELSE Head(ps).kills + SumOfKills(Tail(ps))

\* Lines 111-114 and 118: the timeline id of an account, 0 when the timeline
\* does not list it (a later entry for the same account overwrites an
\* earlier one).
TimelineIdOf(tl, puuid) ==
    LET tps == IF "participants" \in DOMAIN tl.info THEN tl.info.participants ELSE <<>>
        hits == {k \in 1..Len(tps) : tps[k].puuid = puuid}
    IN  IF hits = {} THEN 0
        ELSE tps[CHOOSE k \in hits : \A j \in hits : j <= k].participantId

\* Lines 74-136. The result is how the call completed and, on return, Null
\* or Some(context).
buildContext(match) ==
    IF IsNull(match.rawJson) THEN [completion |-> "return", ctx |-> Null]
    ELSE IF IsString(Val(match.rawJson)) /\ ParseThrows(Val(match.rawJson))
    THEN [completion |-> "throw", ctx |-> Null]
    ELSE
    LET raw == IF IsString(Val(match.rawJson)) THEN JSONparse(Val(match.rawJson))
               ELSE Val(match.rawJson)
        info == raw.info
        participants == info.participants
        found == {k \in 1..Len(participants) :
                    /\ participants[k].championName = match.championName
                    /\ participants[k].teamId = match.teamId}
    IN  IF found = {} THEN [completion |-> "return", ctx |-> Null]
        ELSE
        LET me == participants[CHOOSE k \in found : \A j \in found : k <= j]
            myTeam == SelectSeq(participants, LAMBDA p : p.teamId = me.teamId)
            enemyTeam == SelectSeq(participants, LAMBDA p : p.teamId # me.teamId)
            base == [match |-> match, me |-> me, info |-> info,
                     participants |-> participants, myTeam |-> myTeam,
                     enemyTeam |-> enemyTeam, teamKills |-> SumOfKills(myTeam),
                     gameDuration |-> info.gameDuration, win |-> me.win,
                     myTeamId |-> me.teamId,
                     enemyTeamId |-> IF me.teamId = 100 THEN 200 ELSE 100,
                     hasTimeline |-> FALSE, myPId |-> 0, myTeamIds |-> <<>>,
                     enemyTeamIds |-> <<>>, killEvents |-> <<>>, objectiveEvents |-> <<>>,
                     buildingEvents |-> <<>>, wardEvents |-> <<>>, levelEvents |-> <<>>,
                     frames |-> <<>>]
        IN  IF IsNull(match.timelineJson) THEN [completion |-> "return", ctx |-> Some(base)]
            ELSE IF IsString(Val(match.timelineJson)) /\ ParseThrows(Val(match.timelineJson))
            THEN [completion |-> "throw", ctx |-> Null]
            ELSE
            LET tl == IF IsString(Val(match.timelineJson))
                      THEN JSONparse(Val(match.timelineJson)) ELSE Val(match.timelineJson)
                inTimeline == SelectSeq(participants, LAMBDA p : TimelineIdOf(tl, p.puuid) # 0)
                mine == SelectSeq(inTimeline, LAMBDA p : p.teamId = me.teamId)
                theirs == SelectSeq(inTimeline, LAMBDA p : p.teamId # me.teamId)
                frames == IF "frames" \in DOMAIN tl.info THEN tl.info.frames ELSE <<>>
                events == FlatEvents(frames)
                OfType(types) == SelectSeq(events, LAMBDA e : e.type \in types)
            IN  [completion |-> "return",
                 ctx |-> Some([base EXCEPT
                    !.hasTimeline = TRUE,
                    !.myPId = TimelineIdOf(tl, me.puuid),
                    !.myTeamIds = [k \in 1..Len(mine) |-> TimelineIdOf(tl, mine[k].puuid)],
                    !.enemyTeamIds = [k \in 1..Len(theirs) |-> TimelineIdOf(tl, theirs[k].puuid)],
                    !.frames = frames,
                    !.killEvents = SortByTimestamp(OfType({"CHAMPION_KILL"})),
                    !.objectiveEvents = OfType({"ELITE_MONSTER_KILL"}),
                    !.buildingEvents = OfType({"BUILDING_KILL"}),
                    !.wardEvents = OfType({"WARD_PLACED", "WARD_KILL"}),
                    !.levelEvents = OfType({"LEVEL_UP"})])]

\* The value of a predicate that returned: "true" or "false".
Tri(b) == IF b THEN "true" ELSE "false"

\* Array.prototype.every over values that may throw: the first value that is
\* not "true" decides.
EveryTri(rs) ==
    LET stops == {k \in 1..Len(rs) : rs[k] # "true"}
    IN  IF stops = {} THEN "true" ELSE rs[CHOOSE k \in stops : \A j \in stops : k <= j]

\* The timeline guard most predicates start with: !ctx.hasTimeline || !ctx.myPId.
NoTimelineId(ctx) == ~ctx.hasTimeline \/ ctx.myPId = 0

\* evaluate: () => false, for the badges the API gives no data for.
CannotImplement(ctx) == "false"

\* A predicate that, without a timeline, decides on the damage alone.
SmallButMightyUnguarded(ctx) ==
    LET myDmg == ctx.me.totalDamageDealtToChampions
        isMaxDmg == \A k \in 1..Len(ctx.myTeam) :
                        ctx.myTeam[k].totalDamageDealtToChampions <= myDmg
    IN  Tri(isMaxDmg)

\* Lines 151-166.
SmallButMighty(ctx) ==
    LET myDmg == ctx.me.totalDamageDealtToChampions
        isMaxDmg == \A k \in 1..Len(ctx.myTeam) :
                        ctx.myTeam[k].totalDamageDealtToChampions <= myDmg
    IN  IF ctx.hasTimeline /\ Len(ctx.frames) > 0
        THEN LET lastFrame == ctx.frames[Len(ctx.frames)]
                 HP(id) == IF id \in DOMAIN lastFrame.participantFrames
                           THEN lastFrame.participantFrames[id].championStats.healthMax
                           ELSE 0
                 isMinHP == HP(ctx.myPId) > 0
                            /\ \A k \in 1..Len(ctx.myTeamIds) :
                                    HP(ctx.myTeamIds[k]) >= HP(ctx.myPId)
             IN  Tri(isMaxDmg /\ isMinHP)
        ELSE "false"

\* Lines 171-176.
TheMayorsDecree(ctx) ==
    Tri(/\ \A k \in 1..Len(ctx.myTeam) : ctx.myTeam[k].visionScore <= ctx.me.visionScore
        /\ \A k \in 1..Len(ctx.myTeam) : ctx.myTeam[k].assists <= ctx.me.assists)

\* Line 183.
TheBloodCrowned(ctx) == Tri(ctx.me.pentaKills >= 2)

\* Lines 188-200.
IronWill(ctx) ==
    IF NoTimelineId(ctx) THEN "false"
    ELSE LET others == SelectSeq(ctx.myTeamIds, LAMBDA id : id # ctx.myPId)
             outnumbered == {k \in 1..Len(ctx.killEvents) :
                LET e == ctx.killEvents[k]
                    frame == getNearestFrame(ctx.frames, e.timestamp)
                IN  /\ e.killerId = ctx.myPId
                    /\ ~IsNull(e.position)
                    /\ countNearby(frame, ctx.enemyTeamIds, Val(e.position), 1000)
                            > countNearby(frame, others, Val(e.position), 1000) + 1}
         IN  Tri(Cardinality(outnumbered) >= 3)

\* Lines 206-212.
TotalAnnexation(ctx) ==
    IF NoTimelineId(ctx) THEN "false"
    ELSE LET enemyTurrets == SelectSeq(ctx.buildingEvents,
                LAMBDA e : e.buildingType = "TOWER_BUILDING"
                           /\ e.killerId \in Range(ctx.myTeamIds))
         IN  IF Len(enemyTurrets) = 0 THEN "false"
             ELSE EveryTri([k \in 1..Len(enemyTurrets) |->
                                didParticipate(enemyTurrets[k], ctx.myPId)])

\* Lines 220-225.
TheUnyieldingAegis(ctx) ==
    IF NoTimelineId(ctx) THEN "false"
    ELSE LET teamMonsters == SelectSeq(ctx.objectiveEvents,
                LAMBDA e : e.killerId \in Range(ctx.myTeamIds))
         IN  IF Len(teamMonsters) = 0 THEN "false"
             ELSE EveryTri([k \in 1..Len(teamMonsters) |->
                                didParticipate(teamMonsters[k], ctx.myPId)])

\* Lines 230-233.
HittinAWall(ctx) == Tri(ctx.me.damageSelfMitigated + ctx.me.totalDamageTaken >= 50000)

\* Lines 246-249.
KingOfTheDocks(ctx) ==
    Tri(\A k \in 1..Len(ctx.participants) :
            ctx.participants[k].goldEarned <= ctx.me.goldEarned)

\* Lines 254-272: the barons the subject killed are looked at in turn; the
\* first one that throws or qualifies decides.
SeaMonstersTithe(ctx) ==
    IF NoTimelineId(ctx) THEN "false"
    ELSE LET baronKills == SelectSeq(ctx.objectiveEvents,
                LAMBDA e : e.monsterType = "BARON_NASHOR" /\ e.killerId = ctx.myPId)
             allyCount == Len(SelectSeq(ctx.myTeamIds, LAMBDA id : id # ctx.myPId))
             Look(baron) ==
                IF baron.assistingParticipantIds.kind = "number" THEN "throw"
                ELSE LET assists == SelectSeq(baron.assistingParticipantIds.ids,
                                              LAMBDA id : id \in Range(ctx.myTeamIds))
                         recentAllyDeaths == SelectSeq(ctx.killEvents,
                            LAMBDA e : /\ e.victimId \in Range(ctx.myTeamIds)
                                       /\ e.victimId # ctx.myPId
                                       /\ e.timestamp > baron.timestamp - 40000
                                       /\ e.timestamp < baron.timestamp)
                     IN  Tri(Len(assists) = 0 /\ Len(recentAllyDeaths) >= allyCount)
             looks == [k \in 1..Len(baronKills) |-> Look(baronKills[k])]
             decided == {k \in 1..Len(looks) : looks[k] # "false"}
         IN  IF decided = {} THEN "false"
             ELSE looks[CHOOSE k \in decided : \A j \in decided : k <= j]

\* Lines 277-283.
TreasureMapLocator(ctx) ==
    IF NoTimelineId(ctx) THEN "false"
    ELSE LET late == {k \in 1..Len(ctx.frames) : ctx.frames[k].timestamp >= 600000}
         IN  IF late = {} THEN "false"
             ELSE LET frame10 == ctx.frames[CHOOSE k \in late : \A j \in late : k <= j]
                  IN  Tri(getPlayerGold(Some(frame10), ctx.myPId) >= 4000)

\* Lines 291-298.
TheUnbrokenWill(ctx) ==
    IF ~ctx.hasTimeline \/ ~ctx.win THEN "false"
    ELSE Tri(\E k \in 1..Len(ctx.frames) :
                getTeamGold(ctx.frames[k], ctx.enemyTeamIds)
                    - getTeamGold(ctx.frames[k], ctx.myTeamIds) >= 10000)

\* Line 304.
WhereAreYouGoing(ctx) == Tri(ctx.me.timeCCingOthers >= 100 /\ ctx.me.assists >= 15)

\* Lines 317-320.
TheSpiritsBalance(ctx) ==
    IF ctx.teamKills = 0 THEN "false"
    ELSE Tri(ctx.me.kills + ctx.me.assists >= ctx.teamKills)

\* Lines 339-345: totalMinionsKilled / (gameDuration / 60) >= 10.0.
HextechPerfection(ctx) ==
    IF ctx.me.deaths # 0 THEN "false"
    ELSE Tri(ctx.gameDuration > 0 /\ ctx.me.totalMinionsKilled * 60 >= 10 * ctx.gameDuration)

\* Lines 356-364.
PiltovanSniper(ctx) ==
    IF NoTimelineId(ctx) THEN "false"
    ELSE Tri(\E k \in 1..Len(ctx.killEvents) :
            LET e == ctx.killEvents[k]
                myPos == getPlayerPos(getNearestFrame(ctx.frames, e.timestamp), ctx.myPId)
            IN  /\ e.killerId = ctx.myPId
                /\ ~IsNull(e.position)
                /\ ~IsNull(myPos)
                /\ DistAtLeast(Val(myPos), Val(e.position), 2000))

\* Lines 384-387.
ToxicWorkCulture(ctx) == Tri(ctx.me.trueDamageDealtToChampions >= 10000)

\* Lines 400-406.
PeakPerformance(ctx) ==
    IF NoTimelineId(ctx) THEN "false"
    ELSE LET lvl18events == SortByTimestamp(SelectSeq(ctx.levelEvents, LAMBDA e : e.level = 18))
         IN  IF Len(lvl18events) = 0 THEN "false"
             ELSE Tri(lvl18events[1].participantId = ctx.myPId)

\* A comparison of gold in which an equal figure does not pass.
TheAscendedEmperorStrict(ctx) ==
    Tri(/\ \A k \in 1..Len(ctx.participants) :
                ctx.participants[k].goldEarned < ctx.me.goldEarned
        /\ \A k \in 1..Len(ctx.participants) :
                ctx.participants[k].totalDamageDealtToChampions
                    <= ctx.me.totalDamageDealtToChampions
        /\ \A k \in 1..Len(ctx.participants) :
                ctx.participants[k].champLevel <= ctx.me.champLevel)

\* Lines 419-426.
TheAscendedEmperor(ctx) ==
    Tri(/\ \A k \in 1..Len(ctx.participants) :
                ctx.participants[k].goldEarned <= ctx.me.goldEarned
        /\ \A k \in 1..Len(ctx.participants) :
                ctx.participants[k].totalDamageDealtToChampions
                    <= ctx.me.totalDamageDealtToChampions
        /\ \A k \in 1..Len(ctx.participants) :
                ctx.participants[k].champLevel <= ctx.me.champLevel)

\* Lines 431-450: the first tower and inhibitor of the subject within 60 s of
\* each other return true, with or without a second tower.
ArchitectOfRuin(ctx) ==
    IF NoTimelineId(ctx) THEN "false"
    ELSE LET myBuildings == SelectSeq(ctx.buildingEvents, LAMBDA e : e.killerId = ctx.myPId)
             towers == SelectSeq(myBuildings, LAMBDA e : e.buildingType = "TOWER_BUILDING")
             inhibs == SelectSeq(myBuildings, LAMBDA e : e.buildingType = "INHIBITOR_BUILDING")
         IN  Tri(\E t \in 1..Len(towers), i \in 1..Len(inhibs) :
                    Abs(towers[t].timestamp - inhibs[i].timestamp) <= 60000)

\* Lines 464-477.
DeathIsOnlyTheStart(ctx) ==
    IF NoTimelineId(ctx) THEN "false"
    ELSE Tri(\E d \in 1..Len(ctx.killEvents) :
            /\ ctx.killEvents[d].victimId = ctx.myPId
            /\ Len(SelectSeq(ctx.killEvents,
                    LAMBDA e : /\ e.killerId = ctx.myPId
                               /\ e.timestamp > ctx.killEvents[d].timestamp
                               /\ e.timestamp <= ctx.killEvents[d].timestamp + 30000)) >= 3)

\* Lines 483-491: every kill event is looked at, so a throw on any of them
\* leaves the predicate.
TheHarrowingMist(ctx) ==
    IF NoTimelineId(ctx) THEN "false"
    ELSE LET parts == [k \in 1..Len(ctx.killEvents) |->
                            didParticipate(ctx.killEvents[k], ctx.myPId)]
         IN  IF \E k \in 1..Len(parts) : parts[k] = "throw" THEN "throw"
             ELSE Tri(Cardinality({k \in 1..Len(parts) :
                        /\ parts[k] = "true"
                        /\ isInBase(ctx.killEvents[k].position, ctx.enemyTeamId)}) >= 10)

\* Lines 511-534.
JungleStalker(ctx) ==
    IF NoTimelineId(ctx) THEN "false"
    ELSE LET junglers == {k \in 1..Len(ctx.enemyTeam) :
                            \/ ctx.enemyTeam[k].teamPosition = "JUNGLE"
                            \/ ctx.enemyTeam[k].individualPosition = "JUNGLE"}
         IN  IF junglers = {} THEN "false"
             ELSE LET enemyJungler == ctx.enemyTeam[CHOOSE k \in junglers :
                                                        \A j \in junglers : k <= j]
                      raw == Val(ctx.match.timelineJson)
                      tl == IF IsString(raw) THEN JSONparse(raw) ELSE raw
                      enemyJgPId == TimelineIdOf(tl, enemyJungler.puuid)
                  IN  IF enemyJgPId = 0 THEN "false"
                      ELSE Tri(Cardinality({k \in 1..Len(ctx.killEvents) :
                                /\ ctx.killEvents[k].killerId = ctx.myPId
                                /\ ctx.killEvents[k].victimId = enemyJgPId
                                /\ isInJungleSide(ctx.killEvents[k].position,
                                                  ctx.enemyTeamId)}) >= 4)

\* Lines 548-557.
EvolveAndConsume(ctx) ==
    IF NoTimelineId(ctx) THEN "false"
    ELSE Tri(\E k \in 1..Len(ctx.killEvents) :
            LET e == ctx.killEvents[k]
                frame == getNearestFrame(ctx.frames, e.timestamp)
            IN  /\ e.killerId = ctx.myPId
                /\ getPlayerGold(frame, e.victimId) > getPlayerGold(frame, ctx.myPId) + 2000)

\* Lines 563-567: trueDmg / totalDmg >= 0.30.
OblivionsCall(ctx) ==
    Tri(/\ ctx.me.totalDamageDealtToChampions > 0
        /\ ctx.me.trueDamageDealtToChampions * 100 >= 30 * ctx.me.totalDamageDealtToChampions)

\* Lines 572-583.
TheVoidsReach(ctx) ==
    IF NoTimelineId(ctx) THEN "false"
    ELSE Tri(\E k \in 1..Len(ctx.killEvents) :
            LET e == ctx.killEvents[k]
                myPos == getPlayerPos(getNearestFrame(ctx.frames, e.timestamp), ctx.myPId)
            IN  /\ e.killerId = ctx.myPId
                /\ isInBase(e.position, ctx.enemyTeamId)
                /\ isInFountain(myPos, ctx.myTeamId))

\* Lines 140-586: the catalog, in its order. Each entry has the name and the
\* description of the badge.
BADGES ==
    << [name |-> "David vs Goliath",
        description |-> "You survived on a prayer and 5% health while taking down 3 enemies. Peak yordle energy."],
       [name |-> "Small But Mighty",
        description |-> "You dealt the most damage on your team despite having the lowest total health pool."],
       [name |-> "The Mayor's Decree",
        description |-> "You had the highest Vision Score and most Assists on your team. You run this town."],
       [name |-> "The Blood-Crowned",
        description |-> "One Pentakill is a fluke; two in one game is a war crime. Welcome to the high command."],
       [name |-> "Iron Will",
        description |-> "You secured 3+ kills while being outnumbered (1v2 or 1v3) in the immediate area."],
       [name |-> "Total Annexation",
        description |-> "You participated in every single turret destruction on the map. The empire's borders only move forward."],
       [name |-> "The Unyielding Aegis",
        description |-> "You were present for every single Epic Monster kill. A true vanguard never misses an objective."],
       [name |-> "Hittin' a Wall",
        description |-> "You mitigated 50,000+ damage during the match. They broke their swords against your resolve."],
       [name |-> "For the King",
        description |-> "You were the first person to deal damage in 5 separate teamfight kills. You lead the charge."],
       [name |-> "King of the Docks",
        description |-> "You finished with the highest gold count in the lobby. Everyone else is just a stowaway."],
       [name |-> "Sea Monster's Tithe",
        description |-> "You stole Baron while your entire team was dead. High stakes, higher reward."],
       [name |-> "Treasure Map Locator",
        description |-> "You reached 4,000 gold by the 10:00 mark. You've got a nose for the \"shiny\" stuff."],
       [name |-> "The Unbroken Will",
        description |-> "You won after being down 10,000 gold. The ice doesn't break, and neither do you."],
       [name |-> "Where Are You Going?",
        description |-> "100+ CC score and 15+ assists. You turned the enemy team into living statues."],
       [name |-> "Heart of the Ram",
        description |-> "You mitigated 10,000 damage in a single 20-second fight. You are the mountain."],
       [name |-> "The Spirit's Balance",
        description |-> "100% Kill Participation. You were the heartbeat of every single fight on the map."],
       [name |-> "Dance of the First Lands",
        description |-> "You hit all 5 enemies with a single Ultimate. A perfect symphony of destruction."],
       [name |-> "Death by a Thousand Petals",
        description |-> "You secured 3 kills in a row where each kill was dealt by a different ability."],
       [name |-> "Hextech Perfection",
        description |-> "0 deaths and 10+ CS per minute. Efficiency that would make Camille blush."],
       [name |-> "Clockwork Multiplier",
        description |-> "You secured a Triple Kill or higher using only your auto-attacks. No mana wasted."],
       [name |-> "Piltovan Sniper",
        description |-> "You secured a kill from over 2,000 units away. Distance is just another variable."],
       [name |-> "Chem-Tech Overdrive",
        description |-> "You pumped out 2,000 damage while below 10% health. High-octane desperation."],
       [name |-> "Unstable Mutation",
        description |-> "You used 4 different abilities or items to secure 4 kills. Versatility is your only constant."],
       [name |-> "Toxic Work Culture",
        description |-> "You dealt 10,000+ total True Damage or Damage-over-time (Burn/Poison) in one match."],
       [name |-> "The Star-Crossed Hero",
        description |-> "You denied 10 killing blows on allies. You didn't just support them; you saved their souls."],
       [name |-> "Peak Performance",
        description |-> "You reached Level 18 before anyone else in the match. The view is better from the top."],
       [name |-> "Celestial Impact",
        description |-> "You CC'd all 5 enemies simultaneously using a single ability. A cosmic alignment."],
       [name |-> "The Ascended Emperor",
        description |-> "Highest gold, damage, and level. Tell the people what you have seen today."],
       [name |-> "Architect of Ruin",
        description |-> "You destroyed a tower, an inhibitor, and a nexus turret in one continuous push."],
       [name |-> "The Emperor's Tax",
        description |-> "You took every single jungle camp (including the enemy's) in one rotation. All belongs to Shurima."],
       [name |-> "Death is Only the Start",
        description |-> "You got a Triple Kill while gray-screened. Death is just a change in management."],
       [name |-> "The Harrowing Mist",
        description |-> "10+ takedowns inside the enemy base. The mist has finally claimed their home."],
       [name |-> "Soul-Siphon Surge",
        description |-> "You healed for 100% of your maximum HP during a single continuous fight."],
       [name |-> "Elemental Ambush",
        description |-> "You secured a kill within 3 seconds of leaving a bush. They never saw the leaves move."],
       [name |-> "Jungle Stalker",
        description |-> "You killed the enemy Jungler in their own jungle multiple times. Their camps are your camps now."],
       [name |-> "The Unseen Gardener",
        description |-> "You cleared 15+ wards and secured 2 kills while remaining undetected by the enemy."],
       [name |-> "Evolve and Consume",
        description |-> "You shut down an enemy who had a significant gold lead. Adaptation is the key to survival."],
       [name |-> "Oblivion's Call",
        description |-> "Over 30% of your damage was True Damage. Resistances are an illusion you've deleted."],
       [name |-> "The Void's Reach",
        description |-> "You secured a kill from your own fountain while the victim was in their base."] >>

\* badge.evaluate(ctx), by the name of the badge.
evaluate(badge, ctx) ==
    CASE badge.name = "Small But Mighty" -> SmallButMighty(ctx)
      [] badge.name = "The Mayor's Decree" -> TheMayorsDecree(ctx)
      [] badge.name = "The Blood-Crowned" -> TheBloodCrowned(ctx)
      [] badge.name = "Iron Will" -> IronWill(ctx)
      [] badge.name = "Total Annexation" -> TotalAnnexation(ctx)
      [] badge.name = "The Unyielding Aegis" -> TheUnyieldingAegis(ctx)
      [] badge.name = "Hittin' a Wall" -> HittinAWall(ctx)
      [] badge.name = "King of the Docks" -> KingOfTheDocks(ctx)
      [] badge.name = "Sea Monster's Tithe" -> SeaMonstersTithe(ctx)
      [] badge.name = "Treasure Map Locator" -> TreasureMapLocator(ctx)
      [] badge.name = "The Unbroken Will" -> TheUnbrokenWill(ctx)
      [] badge.name = "Where Are You Going?" -> WhereAreYouGoing(ctx)
      [] badge.name = "The Spirit's Balance" -> TheSpiritsBalance(ctx)
      [] badge.name = "Hextech Perfection" -> HextechPerfection(ctx)
      [] badge.name = "Piltovan Sniper" -> PiltovanSniper(ctx)
      [] badge.name = "Toxic Work Culture" -> ToxicWorkCulture(ctx)
      [] badge.name = "Peak Performance" -> PeakPerformance(ctx)
      [] badge.name = "The Ascended Emperor" -> TheAscendedEmperor(ctx)
      [] badge.name = "Architect of Ruin" -> ArchitectOfRuin(ctx)
      [] badge.name = "Death is Only the Start" -> DeathIsOnlyTheStart(ctx)
      [] badge.name = "The Harrowing Mist" -> TheHarrowingMist(ctx)
      [] badge.name = "Jungle Stalker" -> JungleStalker(ctx)
      [] badge.name = "Evolve and Consume" -> EvolveAndConsume(ctx)
      [] badge.name = "Oblivion's Call" -> OblivionsCall(ctx)
      [] badge.name = "The Void's Reach" -> TheVoidsReach(ctx)
      [] OTHER -> CannotImplement(ctx)

\* A catch block that counts the throwing predicate as earned.
TryEvaluateEarns(badge, ctx) ==
    LET r == evaluate(badge, ctx)
    IN  IF r = "throw" THEN "true" ELSE r

\* Lines 596-606: the try block around one predicate; a predicate that throws
\* is skipped.
TryEvaluate(badge, ctx) ==
    LET r == evaluate(badge, ctx)
    IN  IF r = "throw" THEN "false" ELSE r

\* Lines 594-607: the loop over the catalog from entry k on.
RECURSIVE EvaluateFrom(_, _, _)
EvaluateFrom(k, ctx, earned) ==
    IF k > Len(BADGES) THEN earned
    ELSE EvaluateFrom(k + 1, ctx,
                      IF TryEvaluate(BADGES[k], ctx) = "true"
                      THEN Append(earned, [name |-> BADGES[k].name,
                                           description |-> BADGES[k].description])
                      ELSE earned)

\* Lines 590-609. What buildContext throws leaves evaluateBadges.
evaluateBadges(match) ==
    LET built == buildContext(match)
    IN  IF built.completion = "throw" THEN [completion |-> "throw", value |-> <<>>]
        ELSE IF IsNull(built.ctx) THEN [completion |-> "return", value |-> <<>>]
        ELSE [completion |-> "return", value |-> EvaluateFrom(1, Val(built.ctx), <<>>)]

\* ---- sample match records for the badges

\* A participant of a sample match, with the fields the predicates read.
BadgeParticipant(pid, team, gold, dmg, lvl, carry) ==
    [puuid |-> pid, championName |-> SampleChampions[pid], teamId |-> team, win |-> team = 100,
     kills |-> IF carry THEN 12 ELSE 3, deaths |-> IF carry THEN 0 ELSE 4,
     assists |-> IF carry THEN 15 ELSE 2,
     goldEarned |-> gold, totalDamageDealtToChampions |-> dmg, champLevel |-> lvl,
     visionScore |-> IF carry THEN 60 ELSE 20, pentaKills |-> IF carry THEN 2 ELSE 0,
     damageSelfMitigated |-> IF carry THEN 30000 ELSE 9000,
     totalDamageTaken |-> IF carry THEN 20000 ELSE 9000,
     timeCCingOthers |-> IF carry THEN 100 ELSE 10,
     totalMinionsKilled |-> IF carry THEN 300 ELSE 150,
     trueDamageDealtToChampions |-> IF carry THEN 10000 ELSE 500,
     teamPosition |-> IF pid = 3 THEN "JUNGLE" ELSE "MIDDLE",
     individualPosition |-> IF pid = 3 THEN "JUNGLE" ELSE "MIDDLE"]

\* The subject is participant 1; the other three have fixed figures, the
\* highest being 10000 gold, 20000 damage and level 18.
BadgeDetail(gold, dmg, lvl, carry) ==
    [info |->
        [gameDuration |-> 1800,
         participants |->
            << BadgeParticipant(1, 100, gold, dmg, lvl, carry),
               BadgeParticipant(2, 100, 9000, 20000, 15, FALSE),
               BadgeParticipant(3, 200, 10000, 15000, 18, FALSE),
               BadgeParticipant(4, 200, 7000, 9000, 14, FALSE) >>]]

BadgeEvent(type, ts, killer, victim, pos, assists) ==
    [type |-> type, timestamp |-> ts, killerId |-> killer, victimId |-> victim,
     position |-> pos, assistingParticipantIds |-> assists, buildingType |-> "",
     monsterType |-> "", level |-> 0, participantId |-> 0]

BadgeFrame(ts, positions, golds, healths, events) ==
    [timestamp |-> ts,
     participantFrames |->
        [pid \in 1..4 |-> [position |-> positions[pid], totalGold |-> golds[pid],
                           championStats |-> [healthMax |-> healths[pid]]]],
     events |-> events]

\* A timeline in which the subject, standing in its fountain, gets a kill in
\* the enemy base on a richer victim, kills a baron alone right after its ally
\* died, takes a tower and an inhibitor, assists the tower its ally takes and
\* reaches level 18 first; its team is 10000 gold behind at minute 10. In the
\* variant with a malformed event the ally's tower and one kill carry
\* assistingParticipantIds that are no array.
BadgeTimeline(inTimeline, malformed) ==
    [info |->
        [participants |->
            [k \in 1..Len(inTimeline) |->
                [puuid |-> inTimeline[k], participantId |-> inTimeline[k]]],
         frames |->
            << BadgeFrame(0,
                    << Pos(500, 500), Pos(1500, 1500), Pos(14000, 14000), Pos(13500, 13500) >>,
                    << 500, 500, 500, 500 >>, << 600, 650, 700, 800 >>, <<>>),
               BadgeFrame(600000,
                    << Pos(500, 500), Pos(7000, 7000), Pos(13000, 13000), Pos(8000, 8000) >>,
                    << 4500, 3000, 9500, 8000 >>, << 1800, 2400, 2600, 2000 >>,
                    << BadgeEvent("CHAMPION_KILL", 590000, 3, 2, Pos(7000, 7000),
                                  IF malformed THEN AssistsNotAnArray ELSE NoAssists),
                       BadgeEvent("CHAMPION_KILL", 580000, 1, 3, Pos(13000, 13000), NoAssists),
                       [BadgeEvent("ELITE_MONSTER_KILL", 600000, 1, 0, Pos(5000, 10000), NoAssists)
                            EXCEPT !.monsterType = "BARON_NASHOR"],
                       [BadgeEvent("BUILDING_KILL", 610000, 2, 0, Pos(9000, 9000),
                                   IF malformed THEN AssistsNotAnArray ELSE Assists(<<1>>))
                            EXCEPT !.buildingType = "TOWER_BUILDING"],
                       [BadgeEvent("BUILDING_KILL", 620000, 1, 0, Pos(11000, 11000), NoAssists)
                            EXCEPT !.buildingType = "TOWER_BUILDING"],
                       [BadgeEvent("BUILDING_KILL", 640000, 1, 0, Pos(12000, 12000), NoAssists)
                            EXCEPT !.buildingType = "INHIBITOR_BUILDING"],
                       [BadgeEvent("LEVEL_UP", 650000, 0, 0, Null, NoAssists)
                            EXCEPT !.level = 18, !.participantId = 3],
                       [BadgeEvent("LEVEL_UP", 630000, 0, 0, Null, NoAssists)
                            EXCEPT !.level = 18, !.participantId = 1] >>) >>]]

\* A timeline payload that has neither participants nor frames.
BadgeTimelineBare == [info |-> [frameInterval |-> FRAME_MS]]

SampleBadgeTimelines ==
    { Null, Some(BadgeTimeline(<<1, 2, 3, 4>>, FALSE)), Some(BadgeTimeline(<<1, 2, 3, 4>>, TRUE)),
      Some(BadgeTimeline(<<2, 3, 4>>, FALSE)), Some(BadgeTimelineBare) }

NoBadgeCall ==
    [phase |-> "idle",
     match |-> [rawJson |-> Null, timelineJson |-> Null, championName |-> "", teamId |-> 0],
     out |-> [completion |-> "none", value |-> <<>>]]

Stored(payload, asText) ==
    IF IsNull(payload) THEN Null
    ELSE IF asText THEN Some(JSONstringify(Val(payload))) ELSE payload

\* The match records evaluateBadges is called on: the subject below, level
\* with or above the best of the others in gold, damage and level, with and
\* without the figures of a carry, with every sample timeline or none, the
\* payloads stored as text or held as objects.
WellFormedMatches ==
    { [rawJson |-> Stored(Some(BadgeDetail(gold, dmg, lvl, carry)), asText),
       timelineJson |-> Stored(tl, asText),
       championName |-> "Ahri", teamId |-> 100] :
        gold \in {8000, 10000, 12000}, dmg \in {15000, 20000, 25000}, lvl \in {16, 18},
        carry \in BOOLEAN, tl \in SampleBadgeTimelines, asText \in BOOLEAN }

\* Records without detail, with a champion that did not play, or with a text
\* that does not parse.
DegenerateMatches ==
    { [rawJson |-> raw, timelineJson |-> tl, championName |-> champ, teamId |-> 100] :
        raw \in { Null, Some(MalformedText), Some(BadgeDetail(12000, 25000, 18, TRUE)) },
        tl \in { Null, Some(MalformedText), Some(BadgeTimeline(<<1, 2, 3, 4>>, FALSE)) },
        champ \in { "Ahri", "Teemo" } }

\* evaluateBadges is called on a match record and completes.
EvaluateBadges ==
    /\ badgeCall.phase = "called"
    /\ badgeCall' = [badgeCall EXCEPT !.phase = "done", !.out = evaluateBadges(badgeCall.match)]
    /\ UNCHANGED <<api, matches, pc, ops, calc, ranks, now, rankCall, rf, rankOps>>
    /\ UNCHANGED syncVars
    /\ UNCHANGED passVars
    /\ UNCHANGED uiVars

\* ------------------------------------------------------------ player ranks

\* Line 1230: 24 * 60 * 60 * 1000.
RANK_CACHE_TTL_MS == 86400000

\* Line 619.
REQUEST_DELAY_MS == 150

\* Line 1333.
RANK_MAX_RETRIES == 2

\* Line 1341: the unit of the wait before the next attempt.
RANK_BACKOFF_UNIT_MS == 1000

\* Line 1306: the least length of a player id that is fetched.
MIN_PUUID_LENGTH == 40

\* Number of steps of half a TTL the clock makes in one behaviour.
MaxClockSteps == 3

\* Number of rank operations (direct calls and runs over new matches) in one
\* behaviour.
MaxRankOps == 2

ClockStep == RANK_CACHE_TTL_MS \div 2

\* Two players and an id too short to be a player id.
PLAYER_A == "player-a-0000000000000000000000000000000000"
PLAYER_B == "player-b-0000000000000000000000000000000000"
SHORT_ID == "BOT"
Players == {PLAYER_A, PLAYER_B}

\* riotApi.js lines 154-172: what getLeagueByPuuid resolves to; solo and flex
\* are Null or Some(entry).
LeagueEntry(tier, rank, lp) == [tier |-> tier, rank |-> rank, leaguePoints |-> lp]

LeagueSamples ==
    { [solo |-> Null, flex |-> Null],
      [solo |-> Some(LeagueEntry("GOLD", "II", 0)), flex |-> Null],
      [solo |-> Some(LeagueEntry("PLATINUM", "IV", 40)),
       flex |-> Some(LeagueEntry("SILVER", "I", 75))] }

\* What the surroundings of one getPlayerRank call do: whether the store
\* answers its first read and its write, and what the remote call, if made,
\* comes to.
RankWorlds ==
    { [db |-> "ok", remoteOk |-> TRUE, league |-> l] : l \in LeagueSamples }
    \cup { [db |-> d, remoteOk |-> FALSE, league |-> [solo |-> Null, flex |-> Null]] :
                d \in {"ok", "readFails"} }
    \cup { [db |-> "writeFails", remoteOk |-> TRUE,
            league |-> [solo |-> Some(LeagueEntry("GOLD", "II", 0)), flex |-> Null]] }

\* value || null on a string and value ?? null on a number, the value being
\* read through ?. from an entry that may be null.
StringOrNull(entry, field) ==
    IF IsNull(entry) \/ Val(entry)[field] = "" THEN Null ELSE Some(Val(entry)[field])

NumberOrNull(entry, field) ==
    IF IsNull(entry) THEN Null ELSE Some(Val(entry)[field])

\* Lines 1245-1254.
RankRow(puuid, leagueData, clock) ==
    [puuid |-> puuid,
     soloTier |-> StringOrNull(leagueData.solo, "tier"),
     soloRank |-> StringOrNull(leagueData.solo, "rank"),
     soloLP |-> NumberOrNull(leagueData.solo, "leaguePoints"),
     flexTier |-> StringOrNull(leagueData.flex, "tier"),
     flexRank |-> StringOrNull(leagueData.flex, "rank"),
     flexLP |-> NumberOrNull(leagueData.flex, "leaguePoints"),
     fetchedAt |-> clock]

\* dbGet on a selection of rows: a row of it, or Null.
FirstOf(rows) == IF rows = {} THEN Null ELSE Some(CHOOSE r \in rows : TRUE)

\* Lines 1234-1237 and 1316-1319: ... WHERE puuid = ? AND fetchedAt > ?.
SelectFresh(store, puuid, cutoff) ==
    FirstOf({r \in store : r.puuid = puuid /\ r.fetchedAt > cutoff})

\* Lines 1270 and 1286: ... WHERE puuid = ?.
SelectRank(store, puuid) == FirstOf({r \in store : r.puuid = puuid})

UpsertRankKeepsOld(store, row) == store \cup {row}

\* Lines 1256-1264 and database.js line 103: INSERT ... ON CONFLICT(puuid) DO
\* UPDATE SET every other column.
UpsertRank(store, row) == {r \in store : r.puuid # row.puuid} \cup {row}

RankCatchForgets(store, puuid) ==
    [completion |-> "return", value |-> Null,
     store |-> {r \in store : r.puuid # puuid}, remoteCalls |-> 1]

\* Lines 1267-1272: the catch block returns the stored entry, if any.
RankCatch(store, puuid) ==
    [completion |-> "return", value |-> SelectRank(store, puuid),
     store |-> store, remoteCalls |-> 1]

\* Lines 1232-1273. The result is how the call completed, the value returned,
\* the table after the call and the number of remote calls made.
getPlayerRank(store, puuid, maxAgeMs, clock, world) ==
    IF world.db = "readFails"
    THEN [completion |-> "throw", value |-> Null, store |-> store, remoteCalls |-> 0]
    ELSE LET cached == SelectFresh(store, puuid, clock - maxAgeMs)
         IN  IF ~IsNull(cached)
             THEN [completion |-> "return", value |-> cached, store |-> store,
                   remoteCalls |-> 0]
             ELSE IF ~world.remoteOk \/ world.db = "writeFails"
             THEN RankCatch(store, puuid)
             ELSE LET row == RankRow(puuid, world.league, clock)
                  IN  [completion |-> "return", value |-> Some(row),
                       store |-> UpsertRank(store, row), remoteCalls |-> 1]

\* ---- the rank operations as steps

\* The rows of the matches table the rank run reads, by the two columns it
\* reads: a match of both players and a bot, a match listing them the other
\* way round, a match whose text does not parse, a match without detail.
RankMatchDetail(puuids) ==
    [info |-> [participants |-> [k \in 1..Len(puuids) |-> [puuid |-> puuids[k]]]]]

RankMatchRows ==
    { [matchId |-> 101,
       rawJson |-> Some(JSONstringify(RankMatchDetail(<<PLAYER_A, SHORT_ID, PLAYER_B, "">>)))],
      [matchId |-> 102,
       rawJson |-> Some(JSONstringify(RankMatchDetail(<<PLAYER_B, PLAYER_A>>)))],
      [matchId |-> 103, rawJson |-> Some(MalformedText)],
      [matchId |-> 104, rawJson |-> Null] }

\* The lists of new match ids a run is started with; 999 is in no row.
RankMatchIdLists ==
    { <<>>, <<101>>, <<102, 101>>, <<103, 104>>, <<103, 102>>, <<999>> }

\* Lines 1299-1308: the player ids of one new match, in the order of its
\* participants; none for a match that is missing, has no detail or does not
\* parse.
PuuidsOfMatch(table, matchId) ==
    LET found == {r \in table : r.matchId = matchId}
    IN  IF found = {} THEN <<>>
        ELSE LET match == CHOOSE r \in found : TRUE
             IN  IF IsNull(match.rawJson) \/ ParseThrows(Val(match.rawJson)) THEN <<>>
                 ELSE SelectSeq([k \in 1..Len(JSONparse(Val(match.rawJson)).info.participants) |->
                                    JSONparse(Val(match.rawJson)).info.participants[k].puuid],
                                LAMBDA id : id # "" /\ Len(id) >= MIN_PUUID_LENGTH)

\* Lines 1297-1309: the Set of player ids, in insertion order.
RECURSIVE CollectPuuids(_, _)
CollectPuuids(table, ids) ==
    IF ids = <<>> THEN <<>>
    ELSE Dedup(PuuidsOfMatch(table, Head(ids)) \o CollectPuuids(table, Tail(ids)))

\* Lines 1312-1321: the players without an entry younger than the TTL.
PuuidsToFetch(table, store, ids, clock) ==
    SelectSeq(CollectPuuids(table, ids),
              LAMBDA id : IsNull(SelectFresh(store, id, clock - RANK_CACHE_TTL_MS)))

NoRankCall ==
    [phase |-> "idle", puuid |-> "", maxAgeMs |-> 0, at |-> 0, before |-> {},
     world |-> [db |-> "ok", remoteOk |-> FALSE, league |-> [solo |-> Null, flex |-> Null]],
     out |-> [completion |-> "none", value |-> Null, remoteCalls |-> 0]]

\* The record of a getPlayerRank call made now.
RankCallRecord(puuid, maxAgeMs, world) ==
    LET r == getPlayerRank(ranks, puuid, maxAgeMs, now, world)
    IN  [phase |-> "done", puuid |-> puuid, maxAgeMs |-> maxAgeMs, at |-> now,
         before |-> ranks, world |-> world,
         out |-> [completion |-> r.completion, value |-> r.value,
                  remoteCalls |-> r.remoteCalls]]

NoRankRun ==
    [phase |-> "idle", matchIds |-> <<>>, puuidsToFetch |-> <<>>, i |-> 0, attempt |-> 0,
     fetched |-> 0, failed |-> 0, log |-> <<>>, progress |-> <<>>, delays |-> <<>>,
     result |-> Null]

\* The part of the log of a run that belongs to one player.
NoPlayerLog == [attempts |-> <<>>, waits |-> <<>>, counted |-> "none"]

\* A getPlayerRank call from elsewhere, with the default maxAge or with 0.
GetPlayerRank ==
    /\ rankOps < MaxRankOps
    /\ rf.phase # "loop"
    /\ \E puuid \in Players, maxAgeMs \in {RANK_CACHE_TTL_MS, 0}, world \in RankWorlds :
            /\ rankCall' = RankCallRecord(puuid, maxAgeMs, world)
            /\ ranks' = getPlayerRank(ranks, puuid, maxAgeMs, now, world).store
    /\ rankOps' = rankOps + 1
    /\ UNCHANGED <<api, matches, pc, ops, calc, badgeCall, now, rf>>
    /\ UNCHANGED syncVars
    /\ UNCHANGED passVars
    /\ UNCHANGED uiVars

\* Time passes.
Tick ==
    /\ now < MaxClockSteps * ClockStep
    /\ now' = now + ClockStep
    /\ UNCHANGED <<api, matches, pc, ops, calc, badgeCall, ranks, rankCall, rf, rankOps>>
    /\ UNCHANGED syncVars
    /\ UNCHANGED passVars
    /\ UNCHANGED uiVars

\* Lines 1293-1331: fetchRanksForNewMatches up to its loop; it returns at
\* once when there is no match id or no player to fetch.
RanksStart ==
    /\ rankOps < MaxRankOps
    /\ rf.phase # "loop"
    /\ \E ids \in RankMatchIdLists :
            LET toFetch == IF ids = <<>> THEN <<>>
                           ELSE PuuidsToFetch(matches, ranks, ids, now)
            IN  rf' = IF toFetch = <<>>
                      THEN [NoRankRun EXCEPT
                                !.phase = "done", !.matchIds = ids,
                                !.result = Some([fetched |-> 0, failed |-> 0, total |-> 0])]
                      ELSE [NoRankRun EXCEPT
                                !.phase = "loop", !.matchIds = ids, !.puuidsToFetch = toFetch,
                                !.log = [k \in 1..Len(toFetch) |-> NoPlayerLog]]
    /\ rankOps' = rankOps + 1
    /\ UNCHANGED <<api, matches, pc, ops, calc, badgeCall, now, ranks, rankCall>>
    /\ UNCHANGED syncVars
    /\ UNCHANGED passVars
    /\ UNCHANGED uiVars

\* Line 1341: the wait after a failed attempt.
RankBackoff(att) == RANK_BACKOFF_UNIT_MS * (att + 1)

\* Lines 1332-1358: one attempt for player i. A call that returns counts the
\* player as fetched; a call that throws is followed by a wait and another
\* attempt, or after the last attempt counts the player as failed. After the
\* last player the run returns.
RankAttempt ==
    /\ rf.phase = "loop"
    /\ \E world \in RankWorlds :
        LET k == rf.i + 1
            total == Len(rf.puuidsToFetch)
            call == getPlayerRank(ranks, rf.puuidsToFetch[k], 0, now, world)
            threw == call.completion = "throw"
            tried == [rf EXCEPT !.log[k].attempts =
                                    Append(@, [remoteOk |-> world.remoteOk, db |-> world.db,
                                               remoteCalls |-> call.remoteCalls,
                                               completion |-> call.completion])]
            counted == IF threw
                       THEN [tried EXCEPT !.failed = @ + 1, !.log[k].counted = "failed"]
                       ELSE [tried EXCEPT !.fetched = @ + 1, !.log[k].counted = "fetched"]
            reported == [counted EXCEPT !.progress = Append(@, <<k, total>>), !.attempt = 0]
        IN  /\ rankCall' = RankCallRecord(rf.puuidsToFetch[k], 0, world)
            /\ ranks' = call.store
            /\ rf' = IF threw /\ rf.attempt < RANK_MAX_RETRIES
                      THEN [tried EXCEPT !.attempt = @ + 1,
                                         !.log[k].waits = Append(@, RankBackoff(rf.attempt))]
                      ELSE IF k < total
                      THEN [reported EXCEPT !.i = @ + 1,
                                            !.delays = Append(@, REQUEST_DELAY_MS)]
                      ELSE [reported EXCEPT
                                !.phase = "done",
                                !.result = Some([fetched |-> counted.fetched,
                                                 failed |-> counted.failed,
                                                 total |-> total])]
    /\ UNCHANGED <<api, matches, pc, ops, calc, badgeCall, now, rankOps>>
    /\ UNCHANGED syncVars
    /\ UNCHANGED passVars
    /\ UNCHANGED uiVars

\* ------------------------------------------------------- the match table

\* getMatches orders by gameCreation, newest first; a higher id is a later
\* match.
RECURSIVE IdsDescending(_)
IdsDescending(ids) ==
    IF ids = {} THEN <<>>
    ELSE LET newest == CHOOSE x \in ids : \A y \in ids : y <= x
         IN  <<newest>> \o IdsDescending(ids \ {newest})

\* Nothing is loaded, cached or expanded.
NoView == [matchesData |-> <<>>, badgeCache |-> {}, expanded |-> Null]

\* renderer.js lines 1011-1064: matchesData is replaced by what the store
\* holds and the table is rendered anew, which drops the expanded row.
loadMatchHistory(v, store) ==
    [v EXCEPT !.matchesData = IdsDescending(StoredIds(store)),
              !.expanded = IF store = {} THEN @ ELSE Null]

\* badgeCache.has and badgeCache.get.
CacheHas(cache, matchId) == \E e \in cache : e.matchId = matchId
CacheGet(cache, matchId) == (CHOOSE e \in cache : e.matchId = matchId).badges

\* badgeCache.set.
CacheSet(cache, matchId, badges) ==
    {e \in cache : e.matchId # matchId} \cup {[matchId |-> matchId, badges |-> badges]}

\* The expanded row: which row, of which match, with which badges, and where
\* the badges came from (the cache, the stored record, or nowhere when the
\* read or the evaluation failed).
ExpandedRow(index, matchId, badges, from) ==
    Some([index |-> index, matchId |-> matchId, badges |-> badges, from |-> from])

\* renderer.js lines 1331-1370: toggleRowExpand(index), with the store read
\* of getMatchById succeeding or not.
toggleRowExpand(v, store, index, dbOk) ==
    IF index \notin 1..Len(v.matchesData) THEN v
    ELSE IF ~IsNull(v.expanded) /\ Val(v.expanded).index = index
    THEN [v EXCEPT !.expanded = Null]
    ELSE LET matchId == v.matchesData[index]
         IN  IF CacheHas(v.badgeCache, matchId)
             THEN [v EXCEPT !.expanded =
                        ExpandedRow(index, matchId, CacheGet(v.badgeCache, matchId), "cache")]
             ELSE IF ~dbOk \/ IsNull(DbGetRow(store, matchId))
             THEN [v EXCEPT !.expanded = ExpandedRow(index, matchId, <<>>, "failed")]
             ELSE LET out == evaluateBadges(Val(DbGetRow(store, matchId)))
                  IN  IF out.completion = "throw"
                      THEN [v EXCEPT !.expanded = ExpandedRow(index, matchId, <<>>, "failed")]
                      ELSE [v EXCEPT !.badgeCache = CacheSet(@, matchId, out.value),
                                     !.expanded = ExpandedRow(index, matchId, out.value, "store")]

\* The records the table is opened on: two matches of the subject, each with
\* or without a stored timeline.
TableRows(id) ==
    { [matchId |-> id,
       rawJson |-> Stored(Some(BadgeDetail(gold, 25000, 18, carry)), TRUE),
       timelineJson |-> Stored(tl, TRUE),
       championName |-> "Ahri", teamId |-> 100] :
        gold \in {8000, 12000}, carry \in BOOLEAN,
        tl \in {Null, Some(BadgeTimeline(<<1, 2, 3, 4>>, FALSE))} }

TableStores == { {r1, r2} : r1 \in TableRows(1), r2 \in TableRows(2) }

\* A row of the table is clicked.
ToggleRowExpand ==
    /\ \E index \in 1..Len(view.matchesData), dbOk \in BOOLEAN :
            view' = toggleRowExpand(view, matches, index, dbOk)
    /\ UNCHANGED <<api, matches, pc, ops, calc, badgeCall, ranks, now, rankCall, rf, rankOps,
                   ui, runs>>
    /\ UNCHANGED syncVars
    /\ UNCHANGED passVars

\* badgeEvaluator.js lines 1161-1194: backfillTimelines runs; the timeline
\* of any of the records that lack one is fetched and stored, or not.
BackfillTimelinesPass ==
    /\ \E fetched \in SUBSET {r.matchId : r \in {q \in matches : IsNull(q.timelineJson)}} :
            matches' = {IF r.matchId \in fetched
                        THEN [r EXCEPT !.timelineJson =
                                Some(JSONstringify(BadgeTimeline(<<1, 2, 3, 4>>, FALSE)))]
                        ELSE r : r \in matches}
    /\ UNCHANGED <<api, pc, ops>>
    /\ UNCHANGED syncVars
    /\ UNCHANGED passVars
    /\ UNCHANGED extVars

\* renderer.js lines 1011-1064: the match history is loaded again, as after
\* every synchronization; a failing read leaves the table as it is.
LoadMatchHistory ==
    /\ \E loaded \in BOOLEAN :
            view' = IF loaded THEN loadMatchHistory(view, matches) ELSE view
    /\ UNCHANGED <<api, matches, pc, ops, calc, badgeCall, ranks, now, rankCall, rf, rankOps,
                   ui, runs>>
    /\ UNCHANGED syncVars
    /\ UNCHANGED passVars

\* ------------------------------------------------------ the sync button

\* renderer.js line 1647.
SYNC_COOLDOWN_SECONDS == 120

\* Number of handleSync invocations in one behaviour.
MaxRuns == 3

\* What the two input fields hold, trimmed.
InputTexts == {"", "Player"}

\* What an awaited call of handleSync comes to: it resolves, or it rejects
\* with an HTTP status (0: no response).
CallOutcomes ==
    { [ok |-> TRUE, status |-> 200] }
    \cup { [ok |-> FALSE, status |-> st] : st \in {0, 403, 404, 429} }

NoToast == [type |-> "none", title |-> ""]

\* One invocation of handleSync: where it is, what started it, the calls it
\* has made, whether it wrote to the store, what it told the user last, and
\* whether it started the cooldown.
NewRun(via) ==
    [pc |-> "entry", via |-> via, calls |-> <<>>, wrote |-> FALSE, toast |-> NoToast,
     newMatchIds |-> <<>>, cooldownStarted |-> FALSE]

\* Lines 1640-1643: updateStatus shows a toast.
updateStatus(u, type, title) == [u EXCEPT !.toast = [type |-> type, title |-> title]]

\* Lines 1649-1663.
setButtonLoading(u, loading) == [u EXCEPT !.btnDisabled = loading]

\* Lines 1665-1691: the interval is set and the button disabled.
startSyncCooldown(u) == [u EXCEPT !.cooldown = TRUE, !.btnDisabled = TRUE]

\* Lines 1798-1803: the finally block.
HandleSyncFinally(u) == IF ~u.cooldown THEN setButtonLoading(u, FALSE) ELSE u

\* Lines 1785-1797: the catch block.
HandleSyncCatch(u) == updateStatus(u, "error", "Sync Failed")

\* A run that goes on with the next call although this one was rejected.
RunRejectedContinues(run, call, next) ==
    [run EXCEPT !.pc = next, !.calls = Append(@, [call |-> call, ok |-> FALSE])]

\* The run after the awaited call was rejected: catch and finally end it.
RunRejected(run, call, next) ==
    [run EXCEPT !.pc = "done", !.calls = Append(@, [call |-> call, ok |-> FALSE]),
                !.toast = [type |-> "error", title |-> "Sync Failed"]]

\* The run after the awaited call resolved.
RunResolved(run, call, next) ==
    [run EXCEPT !.pc = next, !.calls = Append(@, [call |-> call, ok |-> TRUE])]

\* Lines 1711-1741: handleSync up to its first await.
HandleSync(via) ==
    /\ Len(runs) < MaxRuns
    /\ IF ui.name = "" \/ ui.tag = ""
       THEN /\ ui' = updateStatus(ui, "error", "Missing Information")
            /\ runs' = Append(runs, [NewRun(via) EXCEPT
                                        !.pc = "done",
                                        !.toast = [type |-> "error",
                                                   title |-> "Missing Information"]])
       ELSE IF ui.cooldown
       THEN /\ ui' = updateStatus(ui, "error", "Cooldown Active")
            /\ runs' = Append(runs, [NewRun(via) EXCEPT
                                        !.pc = "done",
                                        !.toast = [type |-> "error",
                                                   title |-> "Cooldown Active"]])
       ELSE /\ ui' = updateStatus(setButtonLoading(ui, TRUE), "loading", "Finding Account")
            /\ runs' = Append(runs, [NewRun(via) EXCEPT !.pc = "resolve"])

\* The sync button is clicked; a disabled button takes no click.
ClickSync ==
    /\ ~ui.btnDisabled
    /\ HandleSync("click")
    /\ UNCHANGED <<api, matches, pc, ops, calc, badgeCall, ranks, now, rankCall, rf, rankOps>>
    /\ UNCHANGED syncVars
    /\ UNCHANGED passVars
    /\ UNCHANGED view

\* Lines 2052-2057: the Enter key is pressed.
EnterKey ==
    /\ HandleSync("enter")
    /\ UNCHANGED <<api, matches, pc, ops, calc, badgeCall, ranks, now, rankCall, rf, rankOps>>
    /\ UNCHANGED syncVars
    /\ UNCHANGED passVars
    /\ UNCHANGED view

\* A step of run k that awaits a call writing nothing: the call resolves and
\* the run goes on, or it rejects and catch and finally run. The toasts of
\* the progress callbacks are left out.
AwaitStep(k, at, call, next, outcomes) ==
    /\ k \in 1..Len(runs)
    /\ runs[k].pc = at
    /\ \E o \in outcomes :
        IF o.ok
        THEN /\ runs' = [runs EXCEPT ![k] = RunResolved(@, call, next)]
             /\ ui' = ui
        ELSE /\ runs' = [runs EXCEPT ![k] = RunRejected(@, call, next)]
             /\ ui' = HandleSyncFinally(HandleSyncCatch(ui))

\* Lines 1743-1744 and riotApi.js lines 89-115: getPuuidByRiotId settles.
ResolveAccount ==
    /\ \E k \in 1..Len(runs) :
            AwaitStep(k, "resolve", "getPuuidByRiotId", "rankDisplay", CallOutcomes)
    /\ UNCHANGED <<api, matches, pc, ops, calc, badgeCall, ranks, now, rankCall, rf, rankOps>>
    /\ UNCHANGED syncVars
    /\ UNCHANGED passVars
    /\ UNCHANGED view

\* Lines 1746-1749 and 943-1008: fetchAndDisplayRankData, which catches what
\* fails in it and writes nothing to the store, resolves.
DisplayRank ==
    /\ \E k \in 1..Len(runs) :
        /\ runs[k].pc = "rankDisplay"
        /\ runs' = [runs EXCEPT ![k] = RunResolved(@, "fetchAndDisplayRankData", "sync")]
        /\ ui' = updateStatus(ui, "loading", "Syncing Matches")
    /\ UNCHANGED <<api, matches, pc, ops, calc, badgeCall, ranks, now, rankCall, rf, rankOps>>
    /\ UNCHANGED syncVars
    /\ UNCHANGED passVars
    /\ UNCHANGED view

\* The row syncMatches stores for a match, by its key.
SyncedRow(id) == [matchId |-> id]

\* Lines 1749-1754: syncMatches settles; when it resolves it has stored the
\* matches it reports as new.
RunSync ==
    /\ \E k \in 1..Len(runs) :
        /\ runs[k].pc = "sync"
        /\ \E o \in CallOutcomes, ids \in {<<>>, <<1>>, <<2, 1>>} :
            IF o.ok
            THEN LET new == SelectSeq(ids, LAMBDA id : SyncedRow(id) \notin matches)
                 IN  /\ runs' = [runs EXCEPT ![k] =
                                    [RunResolved(@, "syncMatches", "bft") EXCEPT
                                        !.wrote = new # <<>>, !.newMatchIds = new]]
                     /\ matches' = matches \cup {SyncedRow(new[j]) : j \in 1..Len(new)}
                     /\ ui' = ui
            ELSE /\ ids = <<>>
                 /\ runs' = [runs EXCEPT ![k] = RunRejected(@, "syncMatches", "bft")]
                 /\ matches' = matches
                 /\ ui' = HandleSyncFinally(HandleSyncCatch(ui))
    /\ UNCHANGED <<api, pc, ops, calc, badgeCall, ranks, now, rankCall, rf, rankOps>>
    /\ UNCHANGED syncVars
    /\ UNCHANGED passVars
    /\ UNCHANGED view

\* Lines 1758-1763: backfillTimelines settles.
RunBackfillTimelines ==
    /\ \E k \in 1..Len(runs) :
            AwaitStep(k, "bft", "backfillTimelines", "bfa", CallOutcomes)
    /\ UNCHANGED <<api, matches, pc, ops, calc, badgeCall, ranks, now, rankCall, rf, rankOps>>
    /\ UNCHANGED syncVars
    /\ UNCHANGED passVars
    /\ UNCHANGED view

\* Lines 1765-1770: backfillAdvancedStats settles. With no new match the run
\* goes on to the reload (line 1774).
RunBackfillStats ==
    /\ \E k \in 1..Len(runs) :
            AwaitStep(k, "bfa", "backfillAdvancedStats",
                      IF runs[k].newMatchIds # <<>> THEN "ranks" ELSE "reload", CallOutcomes)
    /\ UNCHANGED <<api, matches, pc, ops, calc, badgeCall, ranks, now, rankCall, rf, rankOps>>
    /\ UNCHANGED syncVars
    /\ UNCHANGED passVars
    /\ UNCHANGED view

\* Lines 1772-1781: fetchRanksForNewMatches settles; when it resolves it may
\* have stored the rank of a player of the new matches.
RunRankFetch ==
    /\ \E k \in 1..Len(runs) :
        /\ runs[k].pc = "ranks"
        /\ \E o \in CallOutcomes, stored \in SUBSET {PLAYER_A} :
            IF o.ok
            THEN /\ runs' = [runs EXCEPT ![k] =
                                [RunResolved(@, "fetchRanksForNewMatches", "reload") EXCEPT
                                    !.wrote = TRUE]]
                 /\ ranks' = IF stored = {}
                              THEN ranks
                              ELSE UpsertRank(ranks,
                                       RankRow(PLAYER_A, [solo |-> Null, flex |-> Null], now))
                 /\ ui' = ui
            ELSE /\ stored = {}
                 /\ runs' = [runs EXCEPT ![k] =
                                RunRejected(@, "fetchRanksForNewMatches", "reload")]
                 /\ ranks' = ranks
                 /\ ui' = HandleSyncFinally(HandleSyncCatch(ui))
    /\ UNCHANGED <<api, matches, pc, ops, calc, badgeCall, now, rankCall, rf, rankOps>>
    /\ UNCHANGED syncVars
    /\ UNCHANGED passVars
    /\ UNCHANGED view

\* Lines 1783-1803 and 1011-1064: loadMatchHistory, which catches what fails
\* in it, resolves; the run reports success, starts the cooldown and ends.
RunReload ==
    /\ \E k \in 1..Len(runs) :
        /\ runs[k].pc = "reload"
        /\ runs' = [runs EXCEPT ![k] =
                        [RunResolved(@, "loadMatchHistory", "done") EXCEPT
                            !.toast = [type |-> "success", title |-> "Sync Complete"],
                            !.cooldownStarted = TRUE]]
        /\ ui' = HandleSyncFinally(
                    startSyncCooldown(updateStatus(ui, "success", "Sync Complete")))
    /\ \E loaded \in BOOLEAN :
            view' = IF loaded THEN loadMatchHistory(view, matches) ELSE view
    /\ UNCHANGED <<api, matches, pc, ops, calc, badgeCall, ranks, now, rankCall, rf, rankOps>>
    /\ UNCHANGED syncVars
    /\ UNCHANGED passVars

\* Lines 1673-1682: the interval finds the cooldown over, clears itself and
\* enables the button.
CooldownExpire ==
    /\ ui.cooldown
    /\ ui' = [ui EXCEPT !.cooldown = FALSE, !.btnDisabled = FALSE]
    /\ UNCHANGED <<api, matches, pc, ops, calc, badgeCall, ranks, now, rankCall, rf, rankOps,
                   runs>>
    /\ UNCHANGED syncVars
    /\ UNCHANGED passVars
    /\ UNCHANGED view

\* ------------------------------------------------------- specifications

\* The profile of a ranked match in which the subject played.
RankedProfile ==
    CHOOSE p \in Profiles : p.queueId = RANKED_SOLO_QUEUE /\ p.hasSubject

InitLocals ==
    /\ matches = {}
    /\ pc = "idle"
    /\ ops = 0
    /\ allMatchIds = <<>>
    /\ specialMatchIds = <<>>
    /\ queueIdx = 1
    /\ attempt = 0
    /\ specialLog = NoSpecialLog
    /\ matchIds = <<>>
    /\ batchAt = 0
    /\ units = <<>>
    /\ counters = ZeroCounters
    /\ unitLog = [id \in Ids |-> "none"]
    /\ syncResult = Null
    /\ listed = {}
    /\ prevSync = NoPrevSync
    /\ passes = 0
    /\ bf = NoPass
    /\ prevPass = NoPrevPass

\* Nothing but the synchronisation engine and the passes is in use.
\* Nothing was typed and nothing was pressed.
InitUi ==
    /\ ui = [name |-> "", tag |-> "", btnDisabled |-> FALSE, cooldown |-> FALSE,
             toast |-> NoToast]
    /\ runs = <<>>
    /\ view = NoView

InitExt ==
    /\ calc = NoCalc
    /\ badgeCall = NoBadgeCall
    /\ ranks = {}
    /\ now = 0
    /\ rankCall = NoRankCall
    /\ rf = NoRankRun
    /\ rankOps = 0
    /\ InitUi

\* The table is empty and the API may hold any mix of matches.
Init ==
    /\ api \in [Ids -> Profiles]
    /\ InitLocals
    /\ InitExt

\* The API holds ranked matches of the subject only.
InitMaintenance ==
    /\ api = [id \in Ids |-> RankedProfile]
    /\ InitLocals
    /\ InitExt

vars == <<api, matches, pc, ops, allMatchIds, specialMatchIds, queueIdx, attempt, specialLog,
          matchIds, batchAt, units, counters, unitLog, syncResult, listed, prevSync,
          passes, bf, prevPass,
          calc, badgeCall, ranks, now, rankCall, rf, rankOps, ui, runs, view>>

\* The synchronisation engine alone, run up to MaxOps times.
Next ==
    \/ SyncStart
    \/ SpecialAttempt
    \/ SyncCollect
    \/ \E u \in 1..BATCH_SIZE : UnitGetRow(u)
    \/ \E u \in 1..BATCH_SIZE : UnitFetchDetail(u)
    \/ \E u \in 1..BATCH_SIZE : UnitFetchTimeline(u)
    \/ \E u \in 1..BATCH_SIZE : UnitPersist(u)
    \/ BatchEnd

Spec == Init /\ [][Next]_vars

\* The synchronisation engine and the maintenance passes, any of them started
\* whenever the worker is idle.
NextMaintenance ==
    \/ Next
    \/ backfillTimelinesStart
    \/ backfillTimelinesStep
    \/ backfillAdvancedStatsStart
    \/ backfillAdvancedStatsStep

SpecMaintenance == InitMaintenance /\ [][NextMaintenance]_vars

\* computeAdvancedStatsForMatch applied to one input drawn from the samples.
InitStats ==
    /\ api = [id \in Ids |-> RankedProfile]
    /\ InitLocals
    /\ calc \in WellFormedCalls \cup DegenerateCalls \cup UnpositionedCalls
    /\ badgeCall = NoBadgeCall
    /\ ranks = {}
    /\ now = 0
    /\ rankCall = NoRankCall
    /\ rf = NoRankRun
    /\ rankOps = 0
    /\ InitUi

NextStats == ComputeStats

SpecStats == InitStats /\ [][NextStats]_vars

\* evaluateBadges applied to one match record drawn from the samples.
InitBadges ==
    /\ api = [id \in Ids |-> RankedProfile]
    /\ InitLocals
    /\ calc = NoCalc
    /\ badgeCall \in {[NoBadgeCall EXCEPT !.phase = "called", !.match = m] :
                        m \in WellFormedMatches \cup DegenerateMatches}
    /\ ranks = {}
    /\ now = 0
    /\ rankCall = NoRankCall
    /\ rf = NoRankRun
    /\ rankOps = 0
    /\ InitUi

NextBadges == EvaluateBadges

SpecBadges == InitBadges /\ [][NextBadges]_vars

\* The rank operations alone, over a matches table that holds the sample
\* rows and a rank table that starts empty.
InitRanks ==
    /\ api = [id \in Ids |-> RankedProfile]
    /\ matches = RankMatchRows
    /\ pc = "idle"
    /\ ops = 0
    /\ allMatchIds = <<>>
    /\ specialMatchIds = <<>>
    /\ queueIdx = 1
    /\ attempt = 0
    /\ specialLog = NoSpecialLog
    /\ matchIds = <<>>
    /\ batchAt = 0
    /\ units = <<>>
    /\ counters = ZeroCounters
    /\ unitLog = [id \in Ids |-> "none"]
    /\ syncResult = Null
    /\ listed = {}
    /\ prevSync = NoPrevSync
    /\ passes = 0
    /\ bf = NoPass
    /\ prevPass = NoPrevPass
    /\ InitExt

NextRanks ==
    \/ GetPlayerRank
    \/ Tick
    \/ RanksStart
    \/ RankAttempt

SpecRanks == InitRanks /\ [][NextRanks]_vars

\* The sync form alone: the fields hold a name and a tag or are empty, the
\* tables are empty.
InitForm ==
    /\ api = [id \in Ids |-> RankedProfile]
    /\ InitLocals
    /\ calc = NoCalc
    /\ badgeCall = NoBadgeCall
    /\ ranks = {}
    /\ now = 0
    /\ rankCall = NoRankCall
    /\ rf = NoRankRun
    /\ rankOps = 0
    /\ \E name \in InputTexts, tag \in InputTexts :
            ui = [name |-> name, tag |-> tag, btnDisabled |-> FALSE, cooldown |-> FALSE,
                  toast |-> NoToast]
    /\ runs = <<>>
    /\ view = NoView
    /\ view = NoView

NextForm ==
    \/ ClickSync
    \/ EnterKey
    \/ ResolveAccount
    \/ DisplayRank
    \/ RunSync
    \/ RunBackfillTimelines
    \/ RunBackfillStats
    \/ RunRankFetch
    \/ RunReload
    \/ CooldownExpire

SpecForm == InitForm /\ [][NextForm]_vars

\* The match table alone, opened on two stored matches.
InitExpand ==
    /\ api = [id \in Ids |-> RankedProfile]
    /\ matches \in TableStores
    /\ pc = "idle"
    /\ ops = 0
    /\ allMatchIds = <<>>
    /\ specialMatchIds = <<>>
    /\ queueIdx = 1
    /\ attempt = 0
    /\ specialLog = NoSpecialLog
    /\ matchIds = <<>>
    /\ batchAt = 0
    /\ units = <<>>
    /\ counters = ZeroCounters
    /\ unitLog = [id \in Ids |-> "none"]
    /\ syncResult = Null
    /\ listed = {}
    /\ prevSync = NoPrevSync
    /\ passes = 0
    /\ bf = NoPass
    /\ prevPass = NoPrevPass
    /\ calc = NoCalc
    /\ badgeCall = NoBadgeCall
    /\ ranks = {}
    /\ now = 0
    /\ rankCall = NoRankCall
    /\ rf = NoRankRun
    /\ rankOps = 0
    /\ ui = [name |-> "", tag |-> "", btnDisabled |-> FALSE, cooldown |-> FALSE,
             toast |-> NoToast]
    /\ runs = <<>>
    /\ view = loadMatchHistory(NoView, matches)

NextExpand ==
    \/ ToggleRowExpand
    \/ BackfillTimelinesPass
    \/ LoadMatchHistory

SpecExpand == InitExpand /\ [][NextExpand]_vars

\* ------------------------------------------------------------- claims

SyncReturned == pc = "idle" /\ ~IsNull(syncResult)
SyncResolved == SyncReturned /\ Val(syncResult).status = "resolved"

\* The run that has just resolved follows a resolved run, and the API listed
\* nothing to it that it had not listed to that run.
Rerun ==
    /\ SyncResolved
    /\ prevSync.ran
    /\ prevSync.resolved
    /\ listed \subseteq prevSync.listed

HasNoDuplicates(seq) == \A i, j \in 1..Len(seq) : i # j => seq[i] # seq[j]

\* C2: the list handed to batch processing holds each match id at most once.
C2_ProcessingListHasNoDuplicates == HasNoDuplicates(matchIds)

\* The listings overlapped: more ids were collected than are processed.
C2_Witness ==
    /\ pc = "batch"
    /\ counters.collected > Len(matchIds)
    /\ Len(matchIds) > 1

\* C3 (as stated): every unit resolves to one of new, updated, skipped, error.
C3_EveryUnitResolvesToAnOutcome ==
    \A u \in DOMAIN units :
        units[u].st = "settled" => units[u].value \in {"new", "updated", "skipped", "error"}

\* C4: a failing unit does not keep the other ids from being processed and
\* does not reject the call: every id of a batch that has ended was processed,
\* and a call that got as far as the batch phase resolves, with every id of
\* the processing list processed.
C4_UnitFailureIsConfined ==
    /\ pc = "batch" =>
            /\ IsNull(syncResult)
            /\ \A k \in 1..batchAt : unitLog[matchIds[k]] \notin {"none", "pending"}
    /\ (SyncReturned /\ matchIds # <<>>) =>
            /\ Val(syncResult).status = "resolved"
            /\ Val(syncResult).total = Len(matchIds)
            /\ \A k \in 1..Len(matchIds) : unitLog[matchIds[k]] \notin {"none", "pending"}

\* The first unit failed; its batch mate and the unit of the next batch wrote
\* their records and the call resolved.
C4_Witness ==
    /\ SyncResolved
    /\ Len(matchIds) > BATCH_SIZE
    /\ unitLog[matchIds[1]] = "error"
    /\ unitLog[matchIds[2]] = "new"
    /\ unitLog[matchIds[BATCH_SIZE + 1]] = "new"

\* C5: a special queue is listed at most 3 times, with waits of 1 s and then
\* 2 s between the attempts; a queue whose attempts all failed adds no id and
\* the call goes on with the next queue or the batch phase.
C5_SpecialQueueRetriesAreBounded ==
    /\ specialLog.attempts <= 3
    /\ Len(specialLog.waits) <= 2
    /\ \A k \in 1..Len(specialLog.waits) : specialLog.waits[k] = 1000 * k
    /\ specialLog.outcome = "none" => Len(specialLog.waits) = specialLog.attempts
    /\ specialLog.outcome = "skipped" =>
            /\ specialLog.attempts = 3
            /\ specialLog.waits = <<1000, 2000>>
            /\ specialMatchIds = specialLog.idsBefore
            /\ pc \in {"special", "collect"}
            /\ IsNull(syncResult)

\* The second queue was given up after three attempts; the ids of the first
\* queue are kept and the third queue is next.
C5_Witness ==
    /\ specialLog.outcome = "skipped"
    /\ specialMatchIds # <<>>
    /\ pc = "special"
    /\ queueIdx = 3

StoredRow(store, id) == CHOOSE r \in store : r.matchId = id

\* C6: a unit whose detail fetch succeeded and whose timeline fetch failed
\* (the subject being a participant and the store write not failing) resolves
\* to new or updated, and its record holds the detail-derived fields, a null
\* timeline and null timeline-dependent statistics.
C6_TimelineFailureDoesNotBlockPersistence ==
    \A u \in DOMAIN units :
        LET unit == units[u]
            data == ApiDetail(unit.id, api[unit.id])
        IN  (unit.st = "settled" /\ unit.tlFailed /\ ~unit.dbFailed
                /\ api[unit.id].hasSubject)
            => /\ unit.value = IF IsNull(unit.row) THEN "new" ELSE "updated"
               /\ unit.id \in StoredIds(matches)
               /\ LET r == StoredRow(matches, unit.id)
                      me == data.info.participants[1]
                  IN  /\ r.rawJson = Some(JSONstringify(data))
                      /\ r.gameDuration = Some(data.info.gameDuration)
                      /\ r.gameCreation = data.info.gameCreation
                      /\ r.championName = me.championName
                      /\ r.primaryRune = me.perk
                      /\ r.firstBlood = Some(IF me.firstBloodKill THEN 1 ELSE 0)
                      /\ ~IsNull(r.dmgGoldRatio)
                      /\ IsNull(r.timelineJson)
                      /\ IsNull(r.csDiff15)
                      /\ IsNull(r.goldDiff15)
                      /\ IsNull(r.xpDiff15)
                      /\ IsNull(r.isolatedDeaths)
                      /\ IsNull(r.objectiveRate)

\* One unit inserted and one unit updated a record without timeline.
C6_Witness ==
    /\ \E u \in DOMAIN units :
        units[u].st = "settled" /\ units[u].tlFailed /\ units[u].value = "new"
    /\ \E u \in DOMAIN units :
        units[u].st = "settled" /\ units[u].tlFailed /\ units[u].value = "updated"

\* C7 (as stated): every call that resolves returns newMatchIds, the list of
\* the ids it inserted, of length newMatches.
C7_ResultCarriesNewMatchIds ==
    SyncResolved =>
        /\ ~IsNull(Val(syncResult).newMatchIds)
        /\ Len(Val(Val(syncResult).newMatchIds)) = Val(syncResult).newMatches
        /\ Range(Val(Val(syncResult).newMatchIds)) = {id \in Ids : unitLog[id] = "new"}

OneRowPerId == \A r, q \in matches : r.matchId = q.matchId => r = q

\* C8 (as stated): at most one record per match id; a unit that found a
\* record resolves to updated or skipped and inserts nothing.
C8_ExistingRecordIsUpdatedOrSkipped ==
    /\ OneRowPerId
    /\ \A u \in DOMAIN units :
        (units[u].st = "settled" /\ ~IsNull(units[u].row)) =>
            /\ units[u].value \in {"updated", "skipped"}
            /\ units[u].wrote # "insert"

\* C8 (amended): ... resolves to updated, skipped or error, never to new, and
\* inserts nothing.
C8_ExistingRecordIsNeverNew ==
    /\ OneRowPerId
    /\ \A u \in DOMAIN units :
        (units[u].st = "settled" /\ ~IsNull(units[u].row)) =>
            /\ units[u].value \in {"updated", "skipped", "error"}
            /\ units[u].wrote # "insert"

\* A second run: one unit found its record complete, the other refreshed its.
C8_Witness ==
    /\ \E u \in DOMAIN units :
        units[u].st = "settled" /\ ~IsNull(units[u].row) /\ units[u].value = "updated"
    /\ \E u \in DOMAIN units :
        units[u].st = "settled" /\ ~IsNull(units[u].row) /\ units[u].value = "skipped"

\* The pass in bf is running, or has returned and nothing was started since.
PassRunning == pc = bf.kind
PassJustEnded == pc = "idle" /\ bf.status = "resolved" /\ bf.syncsBefore = ops

LackedTimeline(store) == {r.matchId : r \in {q \in store : IsNull(q.timelineJson)}}
ProcessedIds == {bf.rows[k].matchId : k \in 1..bf.at}

\* C9: backfillTimelines fetches once, in turn, the timeline of each record
\* that lacked one when the pass started and of no other; a failure is counted
\* in failed and leaves the record as it was; updated + failed = total.
C9_TimelineBackfillTriesEachOnce ==
    (bf.kind = "bft" /\ (PassRunning \/ PassJustEnded)) =>
        /\ {bf.rows[k].matchId : k \in 1..Len(bf.rows)} = LackedTimeline(bf.before)
        /\ Len(bf.rows) = Cardinality(LackedTimeline(bf.before))
        /\ bf.total = Len(bf.rows)
        /\ \A id \in Ids : bf.fetches[id] = IF id \in ProcessedIds THEN 1 ELSE 0
        /\ bf.updated + bf.failed = bf.at
        /\ bf.failed = Cardinality({id \in Ids : bf.resp[id] \in {"fetchFail", "dbFail"}})
        /\ \A id \in Ids : bf.resp[id] \in {"fetchFail", "dbFail"} =>
                StoredRow(matches, id) = StoredRow(bf.before, id)
        /\ PassJustEnded => (bf.at = bf.total /\ bf.updated + bf.failed = bf.total)

\* A pass over two records has returned: one fetch failed, one succeeded.
C9_Witness ==
    /\ bf.kind = "bft"
    /\ PassJustEnded
    /\ bf.total >= 2
    /\ bf.failed >= 1
    /\ bf.updated >= 1

\* The pass in bf has just returned; it ran right after a returned pass of the
\* same kind and got, for every record, the response that pass got.
SecondPassSameResponses ==
    /\ PassJustEnded
    /\ prevPass.kind = bf.kind
    /\ prevPass.status = "resolved"
    /\ bf.before = prevPass.after
    /\ \A id \in Ids : bf.resp[id] # "none" => bf.resp[id] = prevPass.resp[id]

\* C10: a maintenance pass run a second time right after a completed run,
\* with the same external responses, leaves every record as the first run
\* left it.
C10_MaintenancePassesAreIdempotent ==
    SecondPassSameResponses => matches = prevPass.after

\* A second statistics pass has rewritten a record.
C10_Witness ==
    /\ SecondPassSameResponses
    /\ bf.kind = "bfa"
    /\ bf.updated >= 1

\* ---- computeAdvancedStatsForMatch alone

StatsDone == calc.phase = "done"
PayloadOf(x) == IF DOMAIN x = {"json"} THEN x.json ELSE x

\* The call was given no detail in which the subject can be found.
SubjectNotFound ==
    LET d == PayloadOf(calc.matchData)
    IN  \/ DOMAIN d = {}
        \/ "participants" \notin DOMAIN d.info
        \/ \A k \in 1..Len(d.info.participants) :
                \/ d.info.participants[k].championName # calc.championName
                \/ d.info.participants[k].teamId # calc.teamId

\* The call was given no timeline with a frame list.
TimelineUnusable ==
    LET t == PayloadOf(calc.timelineData)
    IN  \/ DOMAIN t = {}
        \/ "info" \notin DOMAIN t
        \/ "frames" \notin DOMAIN t.info

TimelineFields == {"csDiff15", "goldDiff15", "xpDiff15", "isolatedDeaths", "objectiveRate"}
StatsFields == TimelineFields \cup {"firstBlood", "dmgGoldRatio"}

\* C11 (as stated): the function never throws, and every field it could not
\* compute is null: all seven when the subject cannot be found in the detail,
\* the five timeline-dependent ones when there is no usable timeline.
C11_NeverThrowsAndDegradesToNull ==
    StatsDone =>
        /\ calc.out.completion = "return"
        /\ SubjectNotFound => \A f \in StatsFields : calc.out.value[f] = Null
        /\ TimelineUnusable => \A f \in TimelineFields : calc.out.value[f] = Null

\* The position label of a participant: teamPosition, else lane.
LaneLabel(p) == IF p.teamPosition # "" THEN p.teamPosition ELSE p.lane

SubjectOf(c) == c.detail.info.participants[c.subject]

\* The participant whose frame the lane differences of the call were taken
\* against: the first enemy carrying the subject's label.
OpponentOf(c) ==
    LET ps == c.detail.info.participants
        enemies == {k \in 1..Len(ps) : ps[k].teamId # SubjectOf(c).teamId
                                        /\ LaneLabel(ps[k]) = LaneLabel(SubjectOf(c))}
    IN  ps[CHOOSE k \in enemies : \A j \in enemies : k <= j]

UsedLaneOpponent == StatsDone /\ calc.subject # 0 /\ calc.out.value.csDiff15 # Null

Negated(a, b) == a # Null /\ b # Null /\ Val(a) = -Val(b)

\* C12 (as stated): when the statistics of subject A were computed against
\* lane opponent B, the statistics computed from the same payloads with B as
\* subject have csDiff15, goldDiff15 and xpDiff15 equal to the negations of A's.
C12_SwappingSubjectAndOpponentNegates ==
    UsedLaneOpponent =>
        LET B == OpponentOf(calc)
            swapped == computeAdvancedStatsForMatch(calc.matchData, calc.timelineData,
                                                    B.championName, B.teamId)
        IN  /\ Negated(swapped.csDiff15, calc.out.value.csDiff15)
            /\ Negated(swapped.goldDiff15, calc.out.value.goldDiff15)
            /\ Negated(swapped.xpDiff15, calc.out.value.xpDiff15)

\* The call was made for a participant of the match, with a timeline that has
\* at least one frame.
ComputedWithFrames ==
    /\ StatsDone
    /\ calc.subject # 0
    /\ DOMAIN calc.timeline # {}
    /\ Len(calc.timeline.info.frames) > 0

EventsOf(c) == FlatEvents(c.timeline.info.frames)
DeathsOf(c) ==
    SelectSeq(EventsOf(c), LAMBDA e : e.type = "CHAMPION_KILL" /\ e.victimId = c.subject)
AlliesOf(c) ==
    {k \in 1..Len(c.detail.info.participants) :
        k # c.subject /\ c.detail.info.participants[k].teamId = SubjectOf(c).teamId}

\* Frame k of a timeline (counted from 0) is the snapshot of minute k; the
\* frames nearest in time to ts are those minimising the distance to it.
FrameDistance(k, ts) == IF ts >= k * 60000 THEN ts - k * 60000 ELSE k * 60000 - ts
NearestInTime(c, ts) ==
    {k \in 0..(Len(c.timeline.info.frames) - 1) :
        \A j \in 0..(Len(c.timeline.info.frames) - 1) :
            FrameDistance(k, ts) <= FrameDistance(j, ts)}

\* Some ally stands within 1500 units of the place of death at frame k.
AllyWithin1500(c, death, k) ==
    /\ death.position # Null
    /\ \E a \in AlliesOf(c) :
        LET pf == c.timeline.info.frames[k + 1].participantFrames
        IN  /\ a \in DOMAIN pf
            /\ pf[a].position # Null
            /\ LET dx == Val(death.position).x - Val(pf[a].position).x
                   dy == Val(death.position).y - Val(pf[a].position).y
               IN  dx * dx + dy * dy <= 1500 * 1500

\* The deaths the claim excludes from the count.
AccompaniedDeaths(c) ==
    {k \in 1..Len(DeathsOf(c)) :
        \E f \in NearestInTime(c, DeathsOf(c)[k].timestamp) : AllyWithin1500(c, DeathsOf(c)[k], f)}

\* C13 (as stated): isolatedDeaths never exceeds the number of deaths of the
\* subject, and a death with an ally within 1500 units of the place of death
\* at the frame nearest in time to the death is not counted.
C13_IsolatedDeathsAreBoundedAndUnaccompanied ==
    ComputedWithFrames =>
        /\ calc.out.value.isolatedDeaths # Null
        /\ Val(calc.out.value.isolatedDeaths) <= Len(DeathsOf(calc))
        /\ Val(calc.out.value.isolatedDeaths)
                <= Len(DeathsOf(calc)) - Cardinality(AccompaniedDeaths(calc))

\* The elite-monster kills made by the subject or an ally.
TeamEliteKills(c) ==
    SelectSeq(EventsOf(c),
              LAMBDA e : e.type = "ELITE_MONSTER_KILL"
                         /\ e.killerId \in AlliesOf(c) \cup {c.subject})

\* C14: objectiveRate is null when the team of the subject killed no elite
\* monster and else lies between 0 and 100 percent (here 0..1000 tenths of a
\* percent).
C14_ObjectiveRateIsNullOrPercentage ==
    ComputedWithFrames =>
        IF Len(TeamEliteKills(calc)) = 0
        THEN calc.out.value.objectiveRate = Null
        ELSE /\ calc.out.value.objectiveRate # Null
             /\ Val(calc.out.value.objectiveRate) >= 0
             /\ Val(calc.out.value.objectiveRate) <= 1000

\* The subject died five seconds before its ally killed the monster and was
\* in its fountain: the rate is 0, not null.
C14_Witness ==
    /\ ComputedWithFrames
    /\ calc.subject = 1
    /\ Len(TeamEliteKills(calc)) = 1
    /\ Len(DeathsOf(calc)) > 0
    /\ calc.out.value.objectiveRate = Some(0)

\* ---- badges

BadgesDone == badgeCall.phase = "done"

\* The call built a context: the record has a detail payload that parses, the
\* subject is among its participants, and the timeline, if any, parses.
BadgeContextBuilt ==
    /\ buildContext(badgeCall.match).completion = "return"
    /\ ~IsNull(buildContext(badgeCall.match).ctx)

BadgeContext == Val(buildContext(badgeCall.match).ctx)

ReturnedNames == {badgeCall.out.value[k].name : k \in 1..Len(badgeCall.out.value)}

\* The catalog positions whose predicate is true on the context of the call.
TruePositions == {k \in 1..Len(BADGES) : evaluate(BADGES[k], BadgeContext) = "true"}

ThrowingPositions == {k \in 1..Len(BADGES) : evaluate(BADGES[k], BadgeContext) = "throw"}

\* C15: evaluateBadges returns, in catalog order, exactly the badges whose
\* predicate returns true on the context of the call; a predicate that throws
\* counts as not earned and the predicates after it are still evaluated.
C15_ReturnsTrueBadgesInCatalogOrder ==
    (BadgesDone /\ BadgeContextBuilt) =>
        /\ badgeCall.out.completion = "return"
        /\ Len(badgeCall.out.value) = Cardinality(TruePositions)
        /\ \A k \in TruePositions :
                badgeCall.out.value[Cardinality({j \in TruePositions : j <= k})]
                    = [name |-> BADGES[k].name, description |-> BADGES[k].description]

\* A call in which a predicate throws, with badges earned before and after it.
C15_Witness ==
    /\ BadgesDone
    /\ BadgeContextBuilt
    /\ \E t \in ThrowingPositions :
            /\ \E k \in TruePositions : k < t
            /\ \E k \in TruePositions : k > t /\ BADGES[k].name \in ReturnedNames

\* The badges whose predicate reads the detail payload alone.
DetailOnlyBadges ==
    { "The Mayor's Decree", "The Blood-Crowned", "Hittin' a Wall", "King of the Docks",
      "Where Are You Going?", "The Spirit's Balance", "Hextech Perfection",
      "Toxic Work Culture", "The Ascended Emperor", "Oblivion's Call" }

\* The badges whose predicate reads events, frames or the subject's timeline id.
TimelineBadges ==
    { "Small But Mighty", "Iron Will", "Total Annexation", "The Unyielding Aegis",
      "Sea Monster's Tithe", "Treasure Map Locator", "The Unbroken Will", "Piltovan Sniper",
      "Peak Performance", "Architect of Ruin", "Death is Only the Start",
      "The Harrowing Mist", "Jungle Stalker", "Evolve and Consume", "The Void's Reach" }

WithoutTimeline == IsNull(badgeCall.match.timelineJson)

\* C16: for a match record without a timeline, evaluateBadges returns exactly
\* the badges that read the detail payload alone and are true on it, never a
\* badge that needs timeline data, and the same result on every evaluation.
C16_WithoutTimelineOnlyDetailBadges ==
    (BadgesDone /\ BadgeContextBuilt /\ WithoutTimeline) =>
        /\ ReturnedNames =
              {BADGES[k].name : k \in {j \in TruePositions : BADGES[j].name \in DetailOnlyBadges}}
        /\ ReturnedNames \cap TimelineBadges = {}
        /\ badgeCall.out = evaluateBadges(badgeCall.match)

\* A record without a timeline whose subject dealt the most damage of its
\* team and earns detail badges.
C16_Witness ==
    /\ BadgesDone
    /\ BadgeContextBuilt
    /\ WithoutTimeline
    /\ \A k \in 1..Len(BadgeContext.myTeam) :
            BadgeContext.myTeam[k].totalDamageDealtToChampions
                <= BadgeContext.me.totalDamageDealtToChampions
    /\ Cardinality(ReturnedNames) >= 3

\* The subject's figure in a field is at least that of every participant.
SubjectTops(field) ==
    \A k \in 1..Len(BadgeContext.participants) :
        BadgeContext.me[field] >= BadgeContext.participants[k][field]

SubjectTiesIn(field) ==
    \E k \in 1..Len(BadgeContext.participants) :
        /\ BadgeContext.participants[k].puuid # BadgeContext.me.puuid
        /\ BadgeContext.me[field] = BadgeContext.participants[k][field]

\* C17: The Ascended Emperor is returned whenever the subject's goldEarned,
\* totalDamageDealtToChampions and champLevel are each at least those of
\* every participant, ties included, with or without a timeline.
C17_AscendedEmperorForTopOfMatch ==
    (/\ BadgesDone
     /\ BadgeContextBuilt
     /\ SubjectTops("goldEarned")
     /\ SubjectTops("totalDamageDealtToChampions")
     /\ SubjectTops("champLevel")) => "The Ascended Emperor" \in ReturnedNames

\* The subject ties another participant in gold and in level, the record has
\* a timeline, and the badge is returned.
C17_Witness ==
    /\ BadgesDone
    /\ BadgeContextBuilt
    /\ ~WithoutTimeline
    /\ SubjectTops("goldEarned") /\ SubjectTiesIn("goldEarned")
    /\ SubjectTops("totalDamageDealtToChampions")
    /\ SubjectTops("champLevel") /\ SubjectTiesIn("champLevel")
    /\ "The Ascended Emperor" \in ReturnedNames

\* ---- player ranks

\* A getPlayerRank call has completed and the store answered its queries.
RankCallDone == rankCall.phase = "done" /\ rankCall.world.db = "ok"

EntriesBefore == {r \in rankCall.before : r.puuid = rankCall.puuid}

EntriesAfter == {r \in ranks : r.puuid = rankCall.puuid}

\* The entries of the player that were fetched less than maxAge before the call.
FreshBefore == {r \in EntriesBefore : rankCall.at - r.fetchedAt < rankCall.maxAgeMs}

\* The columns of a row hold what the remote call returned for the queue, or
\* null where it returned nothing.
HoldsQueue(row, prefix, entry) ==
    IF prefix = "solo"
    THEN IF IsNull(entry)
         THEN IsNull(row.soloTier) /\ IsNull(row.soloRank) /\ IsNull(row.soloLP)
         ELSE /\ row.soloTier = Some(Val(entry).tier)
              /\ row.soloRank = Some(Val(entry).rank)
              /\ row.soloLP = Some(Val(entry).leaguePoints)
    ELSE IF IsNull(entry)
         THEN IsNull(row.flexTier) /\ IsNull(row.flexRank) /\ IsNull(row.flexLP)
         ELSE /\ row.flexTier = Some(Val(entry).tier)
              /\ row.flexRank = Some(Val(entry).rank)
              /\ row.flexLP = Some(Val(entry).leaguePoints)

IsFreshRow(row) ==
    /\ row.puuid = rankCall.puuid
    /\ row.fetchedAt = rankCall.at
    /\ HoldsQueue(row, "solo", rankCall.world.league.solo)
    /\ HoldsQueue(row, "flex", rankCall.world.league.flex)

\* C18: getPlayerRank(id, maxAge) returns the stored entry without a remote
\* call when that entry was fetched less than maxAge before now; otherwise it
\* makes one remote call and, when that succeeds, the table holds exactly one
\* entry for id, with the fresh values and fetch time, which is returned.
C18_CachedWithinMaxAgeElseRefreshed ==
    RankCallDone =>
        /\ rankCall.out.completion = "return"
        /\ FreshBefore # {} =>
                /\ rankCall.out.remoteCalls = 0
                /\ ~IsNull(rankCall.out.value)
                /\ Val(rankCall.out.value) \in FreshBefore
                /\ ranks = rankCall.before
        /\ FreshBefore = {} =>
                /\ rankCall.out.remoteCalls = 1
                /\ rankCall.world.remoteOk =>
                        /\ ~IsNull(rankCall.out.value)
                        /\ IsFreshRow(Val(rankCall.out.value))
                        /\ EntriesAfter = {Val(rankCall.out.value)}
                        /\ ranks \ EntriesAfter = rankCall.before \ EntriesBefore

\* An entry fetched exactly maxAge ago was replaced by a remote fetch that
\* returned other values.
C18_Witness ==
    /\ RankCallDone
    /\ rankCall.maxAgeMs = RANK_CACHE_TTL_MS
    /\ \E r \in EntriesBefore :
            /\ rankCall.at - r.fetchedAt = RANK_CACHE_TTL_MS
            /\ r.soloTier # Val(rankCall.out.value).soloTier
    /\ rankCall.world.remoteOk
    /\ EntriesAfter = {Val(rankCall.out.value)}

\* C19 (state part): a call whose remote fetch failed returns the stored
\* entry of the player, whatever its age, or nothing when there is none, and
\* leaves the table as it was.
FailedFetchReturnsStored ==
    (RankCallDone /\ rankCall.out.remoteCalls = 1 /\ ~rankCall.world.remoteOk) =>
        /\ rankCall.out.completion = "return"
        /\ rankCall.out.value = (IF EntriesBefore = {} THEN Null
                                  ELSE Some(CHOOSE r \in EntriesBefore : TRUE))
        /\ Cardinality(EntriesBefore) <= 1
        /\ ranks = rankCall.before

\* C19 (step part): no step removes the entry of a player from the table.
EntryOutlivesStep == \A r \in ranks : \E r2 \in ranks' : r2.puuid = r.puuid

\* C19: when the remote fetch in getPlayerRank fails, the call returns the
\* stored entry whatever its age (or an absent result) and leaves it
\* unchanged; across any sequence of rank operations no entry is deleted.
C19_FailedFetchFallsBackAndNothingIsDeleted ==
    []FailedFetchReturnsStored /\ [][EntryOutlivesStep]_vars

\* The remote fetch failed for a player whose entry is more than a TTL old;
\* the entry was returned.
C19_Witness ==
    /\ RankCallDone
    /\ rankCall.out.remoteCalls = 1
    /\ ~rankCall.world.remoteOk
    /\ \E r \in EntriesBefore :
            /\ rankCall.at - r.fetchedAt > RANK_CACHE_TTL_MS
            /\ rankCall.out.value = Some(r)
            /\ r \in ranks

RankRunDone == rf.phase = "done" /\ ~IsNull(rf.result)

\* In attempt j for a player the remote fetch was made and failed.
RemoteFailed(a) == a.remoteCalls = 1 /\ ~a.remoteOk

\* C20 (as stated): a player whose remote rank fetch fails is tried again, up
\* to 2 more times, after waits of 1 s and 2 s; a player whose last attempt
\* still fails is counted in failed and not in fetched; and fetched + failed
\* = total.
C20_FailingPlayerIsRetriedThenCountedFailed ==
    RankRunDone =>
        /\ Val(rf.result).fetched + Val(rf.result).failed = Val(rf.result).total
        /\ \A k \in 1..Len(rf.log) :
            LET attempts == rf.log[k].attempts
            IN  /\ Len(attempts) <= RANK_MAX_RETRIES + 1
                /\ \A j \in 1..Len(attempts) :
                        (RemoteFailed(attempts[j]) /\ j <= RANK_MAX_RETRIES) =>
                            /\ Len(attempts) > j
                            /\ rf.log[k].waits[j] = RANK_BACKOFF_UNIT_MS * j
                /\ RemoteFailed(attempts[Len(attempts)]) => rf.log[k].counted = "failed"

\* ---- the sync button

\* The runs that have passed the checks at the head of handleSync and have
\* not ended.
RunsInProgress == {k \in 1..Len(runs) : runs[k].pc # "done"}

\* The account id of run k could not be resolved.
ResolutionFailed(k) ==
    /\ runs[k].calls # <<>>
    /\ runs[k].calls[1] = [call |-> "getPuuidByRiotId", ok |-> FALSE]

\* C21: when resolving the account id fails, handleSync starts neither
\* syncMatches nor a backfill nor a rank fetch, writes no match or rank
\* record, shows an error message and starts no cooldown.
C21_FailedResolutionAbortsSync ==
    \A k \in 1..Len(runs) :
        ResolutionFailed(k) =>
            /\ runs[k].pc = "done"
            /\ Len(runs[k].calls) = 1
            /\ ~runs[k].wrote
            /\ runs[k].toast = [type |-> "error", title |-> "Sync Failed"]
            /\ ~runs[k].cooldownStarted

\* The only run made could not resolve the account: the tables are empty, the
\* error is on the screen, the button is enabled again and no cooldown runs.
C21_Witness ==
    /\ Len(runs) = 1
    /\ ResolutionFailed(1)
    /\ matches = {}
    /\ ranks = {}
    /\ ui.toast = [type |-> "error", title |-> "Sync Failed"]
    /\ ~ui.cooldown
    /\ ~ui.btnDisabled

\* C22 (as stated): at most one synchronization is in progress at any time,
\* whatever the order of clicks and Enter key presses.
C22_AtMostOneSyncInProgress == Cardinality(RunsInProgress) <= 1

\* ---- batches

\* The units of the running syncMatches call that have not settled.
UnitsInFlight == IF pc = "batch" THEN {u \in DOMAIN units : units[u].st # "settled"} ELSE {}

\* A step that starts the units of a batch finds every unit of the batch
\* before it settled.
BatchStartsAfterSettled ==
    (pc = "batch" /\ pc' = "batch" /\ batchAt' # batchAt) =>
        \A u \in DOMAIN units : units[u].st = "settled"

\* C23: during the batch phase of syncMatches at most 2 units are in flight,
\* and no unit of a batch starts before every unit of the batch before it has
\* settled.
C23_TwoInFlightBatchAfterBatch ==
    [](Cardinality(UnitsInFlight) <= 2 /\ Len(units) <= 2)
        /\ [][BatchStartsAfterSettled]_vars

\* The second batch is in flight after a first batch of two units.
C23_Witness ==
    /\ pc = "batch"
    /\ batchAt = BATCH_SIZE
    /\ UnitsInFlight # {}
    /\ \A k \in 1..BATCH_SIZE : unitLog[matchIds[k]] # "pending"

\* ---- processing order

\* The position of the first occurrence of an id in a list that holds it.
FirstIndex(seq, id) == CHOOSE k \in 1..Len(seq) : seq[k] = id /\ \A j \in 1..(k - 1) : seq[j] # id

\* The step that lists the general ids leaves the forward ids followed by the
\* backward ids that are not stored, or the one listing of a first sync.
GeneralIdsAreForwardThenBackward ==
    (pc = "idle" /\ pc' = "special") =>
        IF matches = {}
        THEN allMatchIds' = getMatchIds(api, RANKED_SEASON_START, Null)
        ELSE LET forward == getMatchIds(api, FloorSeconds(Val(MaxCreation(matches))) + 1, Null)
                 backward == SelectSeq(getMatchIds(api, RANKED_SEASON_START, Null),
                                       LAMBDA id : id \notin StoredIds(matches))
             IN  allMatchIds' \in {forward, forward \o backward}

\* The step that builds the processing list leaves the ids of the special
\* listings followed by the general ids, each id at its first occurrence.
ProcessingListIsFirstOccurrences ==
    (pc = "collect" /\ pc' # "collect") =>
        LET all == specialMatchIds \o allMatchIds
        IN  /\ Range(matchIds') = Range(all)
            /\ \A i, j \in 1..Len(matchIds') :
                    i < j => FirstIndex(all, matchIds'[i]) < FirstIndex(all, matchIds'[j])
            /\ \A i, j \in 1..Len(matchIds') :
                    (matchIds'[i] \in Range(specialMatchIds)
                        /\ matchIds'[j] \notin Range(specialMatchIds)) => i < j

\* C24: the processing list is the special ids, then the forward ids, then
\* the backward ids, with every repeat of an id after its first occurrence
\* removed; every id of a special listing precedes every id found only by the
\* general listings.
C24_SpecialIdsFirstThenGeneral ==
    [][GeneralIdsAreForwardThenBackward /\ ProcessingListIsFirstOccurrences]_vars

\* A processing list from which a repeat was removed, headed by a match of a
\* special queue and ended by a ranked match.
C24_Witness ==
    /\ pc = "batch"
    /\ batchAt = 0
    /\ counters.collected > Len(matchIds)
    /\ api[matchIds[1]].queueId \in Range(SPECIAL_QUEUES)
    /\ api[matchIds[1]].listedByDefault
    /\ api[matchIds[Len(matchIds)]].queueId = RANKED_SOLO_QUEUE

\* ---- the statistics pass

\* Some derived statistic of the record has been written.
HasDerivedStats(r) ==
    \/ ~IsNull(r.csDiff15) \/ ~IsNull(r.goldDiff15) \/ ~IsNull(r.xpDiff15)
    \/ ~IsNull(r.firstBlood) \/ ~IsNull(r.dmgGoldRatio)
    \/ ~IsNull(r.isolatedDeaths) \/ ~IsNull(r.objectiveRate)

\* A statistics pass that has selected its rows.
StatsPassSelected == bf.kind = "bfa" /\ bf.status \in {"running", "resolved"}

\* C25: a statistics pass selects exactly the records that have a detail
\* payload and no derived statistics; a record whose derived statistics have
\* been written is not selected by a later pass.
C25_StatsPassSelectsOnlyRecordsWithoutStats ==
    StatsPassSelected =>
        {r.matchId : r \in Range(bf.rows)}
            = {r.matchId : r \in {q \in bf.before : ~IsNull(q.rawJson) /\ ~HasDerivedStats(q)}}

\* ---- isolated deaths and presence at objectives

\* The elite-monster and structure kills made by the subject or an ally.
TeamObjectiveKills(c) ==
    SelectSeq(EventsOf(c),
              LAMBDA e : e.type \in {"ELITE_MONSTER_KILL", "BUILDING_KILL"}
                         /\ e.killerId \in AlliesOf(c) \cup {c.subject})

\* A kill of the subject's team falls within 15 seconds of the time ts.
TeamObjectiveWithin15s(c, ts) ==
    \E k \in 1..Len(TeamObjectiveKills(c)) :
        /\ TeamObjectiveKills(c)[k].timestamp - ts <= 15000
        /\ ts - TeamObjectiveKills(c)[k].timestamp <= 15000

\* The deaths the claim counts: those without a position, and those with no
\* ally in range at the frame nearest in time and no kill of the team nearby.
IsolatedAsStated(c) ==
    {k \in 1..Len(DeathsOf(c)) :
        \/ DeathsOf(c)[k].position = Null
        \/ /\ k \notin AccompaniedDeaths(c)
           /\ ~TeamObjectiveWithin15s(c, DeathsOf(c)[k].timestamp)}

\* C26: isolatedDeaths counts a death with a position if and only if no ally
\* is within 1500 units at the frame nearest the death and no elite-monster
\* or structure kill of the subject's team lies within 15 seconds of it; a
\* death without a position is always counted.
C26_IsolatedDeathsCountsExactlyTheUnaccompanied ==
    ComputedWithFrames =>
        calc.out.value.isolatedDeaths = Some(Cardinality(IsolatedAsStated(calc)))

\* The deaths of the subject before the time ts, in timeline order.
DeathsBefore(c, ts) == SelectSeq(DeathsOf(c), LAMBDA e : e.timestamp < ts)

\* The position of the subject at frame k, or Null.
SubjectPositionAt(c, k) ==
    LET pf == c.timeline.info.frames[k + 1].participantFrames
    IN  IF c.subject \in DOMAIN pf THEN pf[c.subject].position ELSE Null

\* The subject stands outside its own fountain zone at a frame nearest to ts.
OutsideFountainNear(c, ts) ==
    \E k \in NearestInTime(c, ts) :
        /\ SubjectPositionAt(c, k) # Null
        /\ LET pos == Val(SubjectPositionAt(c, k))
           IN  IF SubjectOf(c).teamId = 100
               THEN ~(pos.x < 1500 /\ pos.y < 1500)
               ELSE ~(pos.x > 13500 /\ pos.y > 13500)

\* The kills of the team at which the claim says the subject is alive.
AliveAsStated(c) ==
    {k \in 1..Len(TeamEliteKills(c)) :
        LET ts == TeamEliteKills(c)[k].timestamp
            prior == DeathsBefore(c, ts)
        IN  \/ prior = <<>>
            \/ ts - prior[Len(prior)].timestamp > 30000
            \/ OutsideFountainNear(c, ts)}

\* C27: at every elite-monster kill of its team the subject counts as alive
\* when it has not died before, or its last death is more than 30 seconds
\* old, or it stands outside its fountain at the nearest frame; a missing
\* frame or position does not make a subject whose last death is more than 30
\* seconds old count as not alive. With every kill counted alive the rate is
\* 100 percent (1000 tenths).
C27_AliveWheneverStatedConditionHolds ==
    (ComputedWithFrames /\ Len(TeamEliteKills(calc)) > 0
        /\ Cardinality(AliveAsStated(calc)) = Len(TeamEliteKills(calc)))
    => calc.out.value.objectiveRate = Some(1000)

\* ---- stored timelines

\* A step of syncMatches keeps every stored timeline.
SyncKeepsStoredTimeline ==
    pc = "batch" =>
        \A r \in matches : \A q \in matches' :
            (q.matchId = r.matchId /\ ~IsNull(r.timelineJson)) => ~IsNull(q.timelineJson)

\* C28: an update of an existing record by syncMatches never replaces a
\* stored timeline with null, also when the timeline is fetched again in vain
\* while the record is refreshed for another missing column.
C28_SyncUpdateKeepsStoredTimeline == [][SyncKeepsStoredTimeline]_vars

\* ---- matches left behind

\* The run that has just resolved met no failure and stored no new record:
\* the cursors it read are the cursors the next run reads, so a run that
\* meets no failure either lists and processes the same ids.
SettledRun ==
    /\ SyncResolved
    /\ \A id \in Ids : unitLog[id] \notin {"error", "new"}

\* The matches of the subject that the listing since the season start holds.
ListedSinceSeasonStart ==
    {id \in Range(getMatchIds(api, RANKED_SEASON_START, Null)) : api[id].hasSubject}

\* C29: a listed match whose unit ended in error is processed again by a
\* later run, so that once the failures stop repeated runs store every listed
\* match, wherever the creation times of the stored matches lie: when a run
\* without failure has nothing new left to store, every listed match is
\* stored.
C29_NoListedMatchIsLeftBehind ==
    SettledRun => ListedSinceSeasonStart \subseteq StoredIds(matches)

\* ---- badges of the expanded row

\* A click has expanded a row whose badges were read from the cache or
\* computed from the stored record.
RowExpands ==
    /\ view'.expanded # Null
    /\ view'.expanded # view.expanded
    /\ Val(view'.expanded).from # "failed"

\* The badges of the row just expanded are those of the record in the store.
ExpandedShowsStoredBadges ==
    RowExpands =>
        Val(view'.expanded).badges
            = evaluateBadges(StoredRow(matches', Val(view'.expanded).matchId)).value

\* C30: the badges shown when a row is expanded equal evaluateBadges applied
\* to the record currently in the store, also after a sync or a timeline
\* backfill added a timeline to a match whose row was expanded before.
C30_ExpandedRowShowsBadgesOfStoredRecord == [][ExpandedShowsStoredBadges]_vars

====
